---- MODULE Spec2Model ----
(***************************************************************************)
(* A model of the BBS+ signature library (package bbs).                    *)
(*                                                                         *)
(* The pairing groups of BLS12-381 are modelled as the cyclic group of     *)
(* prime order Order written additively: a G1 or G2 point is its discrete  *)
(* logarithm to the base of the group's standard generator, the identity   *)
(* is 0, and the pairing of P and Q is P*Q modulo Order (GT written        *)
(* additively, so that "IsOne" is "= 0").  SHA-256 is modelled as a fixed  *)
(* deterministic digest of the byte string.  Every value the code draws    *)
(* from rand.Reader is a nondeterministic choice over [0, Order).          *)
(***************************************************************************)
EXTENDS Integers, Sequences, FiniteSets, TLC

VARIABLES kp, sigRes, verRes, sigCache, proofRes, pverRes, proofCache, held,
          bigIntPool, fnRes, batch, calls, kr

vars == <<kp, sigRes, verRes, sigCache, proofRes, pverRes, proofCache, held, bigIntPool,
          fnRes, batch, calls, kr>>

(***************************************************************************)
(* Bounds of the exploration.                                              *)
(***************************************************************************)
MaxL == 2

MaxBatch == 2
MaxMsg == 1

(***************************************************************************)
(* Scalars and the group.                                                  *)
(***************************************************************************)
Order == 3

Scalars == 0 .. (Order - 1)

Mod(a) == a % Order

None == [kind |-> "none"]

\* the header values the callers use; a nil header is the empty byte string
\* (every use in the code appends the header only when it is not nil)
Headers == {<<>>, <<2>>}

RECURSIVE Concat(_)
Concat(seqs) ==
    IF seqs = <<>> THEN <<>> ELSE Head(seqs) \o Concat(Tail(seqs))

RECURSIVE SumSet(_, _)
SumSet(S, f) ==
    IF S = {} THEN 0
    ELSE LET i == CHOOSE j \in S : TRUE
         IN  f[i] + SumSet(S \ {i}, f)

\* bls12381.Generators(): the standard generators of G1 and G2
G1Gen == 1

G2Gen == 1

G1Add(p, q) == Mod(p + q)

G1ScalarMul(p, k) == Mod(p * k)

G1Neg(p) == Mod(Order - p)

G2Add(p, q) == Mod(p + q)

G2ScalarMul(p, k) == Mod(p * k)

G2Neg(p) == Mod(Order - p)

\* G1Affine.Marshal / G2Affine.Marshal: an injective encoding of the point
MarshalG1(p) == <<p>>

MarshalG2(q) == <<q, 0>>

\* bls12381.Pair: the product of the pairings; an error on empty or
\* mismatched inputs
Pair(P, Q) ==
    IF Len(P) = 0 \/ Len(P) # Len(Q)
    THEN [err |-> TRUE, gt |-> 0]
    ELSE [err |-> FALSE,
          gt  |-> Mod(SumSet(1 .. Len(P), [i \in 1 .. Len(P) |-> P[i] * Q[i]]))]

IsOne(r) == r.gt = 0

\* sha256.Sum256 as a number: a fixed digest of the byte string
RECURSIVE SHA256(_)
SHA256(buff) ==
    IF buff = <<>> THEN 10
    ELSE LET acc == SHA256(SubSeq(buff, 1, Len(buff) - 1))
             b   == buff[Len(buff)]
         IN  ((acc * 31 + b + 1) * (acc + b + 3)) % 251

\* the 4-byte big-endian encoding of an int
U32BE(n) ==
    << (n \div 16777216) % 256, (n \div 65536) % 256, (n \div 256) % 256, n % 256 >>

\* big.Int.Bytes(): the minimal big-endian bytes, empty for zero
RECURSIVE BigIntBytes(_)
BigIntBytes(v) == IF v = 0 THEN <<>> ELSE BigIntBytes(v \div 256) \o <<v % 256>>

\* new(big.Int).ModInverse(a, Order): nil (here -1) when a is not invertible
ModInverse(a) ==
    IF Mod(a) = 0 THEN -1
    ELSE CHOOSE i \in 1 .. (Order - 1) : Mod(a * i) = 1

RECURSIVE ExpMod(_, _)
ExpMod(a, k) == IF k = 0 THEN 1 % Order ELSE Mod(a * ExpMod(a, k - 1))

\* ConstantTimeModInverse: a^(n-2) mod n
ConstantTimeModInverse(a) == ExpMod(Mod(a), Order - 2)

(***************************************************************************)
(* Keys.                                                                   *)
(***************************************************************************)
\* GenerateGenerators: generator i is the base point times the scalar
\* SetBytes(sha256(seed_i) || byte(i)) mod Order
GeneratorScalar(i) == Mod(SHA256(<<71, i>>) * 256 + i)

GenerateGenerators(count) == [k \in 1 .. count |-> G1ScalarMul(G1Gen, GeneratorScalar(k - 1))]

\* GenerateKeyPair with the private scalar x that the randomness source gave
GenerateKeyPair(messageCount, x) ==
    [sk |-> [X |-> x],
     pk |-> [W  |-> G2ScalarMul(G2Gen, x),
             G2 |-> G2Gen,
             G1 |-> G1Gen,
             H  |-> GenerateGenerators(messageCount + 2),
             MessageCount |-> messageCount]]

\* pk.H[k] of the code (0-based)
HAt(pk, k) == pk.H[k + 1]

\* messages[i] of the code (0-based)
MsgAt(messages, i) == messages[i + 1]

CalculateDomain(pk, header) ==
    LET buff == U32BE(pk.MessageCount)
                \o Concat([k \in 1 .. Len(pk.H) |-> MarshalG1(pk.H[k])])
                \o MarshalG2(pk.W) \o MarshalG1(pk.G1) \o MarshalG2(pk.G2)
                \o header
    IN  Mod(SHA256(buff))

(***************************************************************************)
(* The managers' domain caches.                                            *)
(***************************************************************************)
maxCacheSize == 100

\* a cache (sync.Map) is a set of <<key, value>> pairs, one value per key
EmptyCache == {}

\* the cache key: the header followed by the first 8 bytes of every
\* generator's encoding
CacheKey(pk, header) ==
    header \o Concat([k \in 1 .. Len(pk.H) |->
                        SubSeq(MarshalG1(pk.H[k]), 1, 1)])

CacheHas(cache, key) == \E ent \in cache : ent[1] = key

CacheGet(cache, key) == (CHOOSE ent \in cache : ent[1] = key)[2]

cleanupCacheIfNeeded(cache) ==
    IF Cardinality(cache) > maxCacheSize THEN EmptyCache ELSE cache

getDomainCached(cache, pk, header) ==
    LET key == CacheKey(pk, header)
    IN  IF CacheHas(cache, key)
        THEN [domain |-> CacheGet(cache, key), cache |-> cache]
        ELSE LET domain == CalculateDomain(pk, header)
             IN  [domain |-> domain,
                  cache  |-> cleanupCacheIfNeeded(cache \cup {<<key, domain>>})]

(***************************************************************************)
(* Signing and signature verification.                                     *)
(***************************************************************************)
\* B = P1 + Q1*s + Q2*domain + sum of H_i*m_i, as Sign, Verify and their
\* pooled variants compute it
ComputeB(pk, s, domain, messages) ==
    LET q1s   == G1ScalarMul(HAt(pk, 0), s)
        q2dom == G1ScalarMul(HAt(pk, 1), domain)
        msum  == SumSet(0 .. (Len(messages) - 1),
                        [i \in 0 .. (Len(messages) - 1) |->
                            G1ScalarMul(HAt(pk, i + 2), MsgAt(messages, i))])
    IN  G1Add(G1Add(G1Add(pk.G1, q1s), q2dom), Mod(msum))

NoSig == [A |-> 0, E |-> 0, S |-> 0]

\* Sign, with the values e and s that RandomScalar returned
Sign(sk, pk, messages, header, e, s) ==
    IF Len(messages) # pk.MessageCount
    THEN [err |-> "ErrInvalidMessageCount", sig |-> NoSig]
    ELSE LET domain == CalculateDomain(pk, header)
             B      == ComputeB(pk, s, domain, messages)
             inv    == ModInverse(sk.X + e)
         IN  IF inv = -1
             THEN [err |-> "failed to compute modular inverse", sig |-> NoSig]
             ELSE [err |-> "nil",
                   sig |-> [A |-> G1ScalarMul(B, inv), E |-> e, S |-> s]]

\* Verify
Verify(pk, signature, messages, header) ==
    IF Len(messages) # pk.MessageCount THEN "ErrInvalidMessageCount"
    ELSE LET domain == CalculateDomain(pk, header)
             B      == ComputeB(pk, signature.S, domain, messages)
             wg2e   == G2Add(pk.W, G2ScalarMul(pk.G2, signature.E))
             negG2  == G2Neg(pk.G2)
             pairingResult == Pair(<<signature.A, B>>, <<wg2e, negG2>>)
         IN  IF pairingResult.err THEN "ErrPairingFailed"
             ELSE IF ~IsOne(pairingResult) THEN "ErrInvalidSignature"
             ELSE "nil"

\* SignatureManager.SignWithPooling, with the values e and s that
\* ConstantTimeRandom returned
SignWithPooling(cache, sk, pk, messages, header, e, s) ==
    IF Len(messages) # pk.MessageCount
    THEN [err |-> "ErrInvalidMessageCount", sig |-> NoSig, cache |-> cache]
    ELSE LET dc  == getDomainCached(cache, pk, header)
             B   == ComputeB(pk, s, dc.domain, messages)
             inv == ConstantTimeModInverse(sk.X + e)
         IN  [err   |-> "nil",
              sig   |-> [A |-> G1ScalarMul(B, inv), E |-> e, S |-> s],
              cache |-> dc.cache]

\* VerifyWithPooling without its message-count check: with too many messages
\* the loop over them indexes pk.H out of range
VerifyWithPoolingUncounted(cache, pk, signature, messages, header) ==
    IF Len(messages) > pk.MessageCount THEN [err |-> "panic", cache |-> cache]
    ELSE LET dc     == getDomainCached(cache, pk, header)
             B      == ComputeB(pk, signature.S, dc.domain, messages)
             wg2e   == G2Add(pk.W, G2ScalarMul(pk.G2, signature.E))
             pairingResult == Pair(<<signature.A, B>>, <<wg2e, G2Neg(pk.G2)>>)
         IN  [err |-> IF pairingResult.err THEN "ErrPairingFailed"
                      ELSE IF ~IsOne(pairingResult) THEN "ErrInvalidSignature"
                      ELSE "nil",
              cache |-> dc.cache]

\* SignatureManager.VerifyWithPooling
VerifyWithPooling(cache, pk, signature, messages, header) ==
    IF Len(messages) # pk.MessageCount
    THEN [err |-> "ErrInvalidMessageCount", cache |-> cache]
    ELSE LET dc     == getDomainCached(cache, pk, header)
             B      == ComputeB(pk, signature.S, dc.domain, messages)
             wg2e   == G2Add(pk.W, G2ScalarMul(pk.G2, signature.E))
             negG2  == G2Neg(pk.G2)
             pairingResult == Pair(<<signature.A, B>>, <<wg2e, negG2>>)
         IN  [err |-> IF pairingResult.err THEN "ErrPairingFailed"
                      ELSE IF ~IsOne(pairingResult) THEN "ErrInvalidSignature"
                      ELSE "nil",
              cache |-> dc.cache]

\* ObjectPool.GetScalarSlice: a slice of length 0 with at least the capacity
GetScalarSlice(capacity) == <<>>

\* the per-signature loop of BatchVerifySignatures from index i on; rho is
\* what ConstantTimeRandom returns
RECURSIVE BatchSigLoop(_, _, _, _, _)
BatchSigLoop(in, i, cache, g1Points, g2Points) ==
    IF i >= Len(in.signatures)
    THEN [panic |-> FALSE, cache |-> cache, g1Points |-> g1Points, g2Points |-> g2Points]
    ELSE LET publicKey == in.publicKeys[i + 1]
             signature == in.signatures[i + 1]
             messages  == in.messagesList[i + 1]
             header    == IF i < Len(in.headers) THEN in.headers[i + 1] ELSE <<>>
             dc        == getDomainCached(cache, publicKey, header)
         IN  IF i >= Len(in.batchScalars) \/ Len(messages) > publicKey.MessageCount
             THEN [panic |-> TRUE, cache |-> dc.cache,
                   g1Points |-> g1Points, g2Points |-> g2Points]
             ELSE LET batchScalar == in.batchScalars[i + 1]
                      B    == G1ScalarMul(ComputeB(publicKey, signature.S, dc.domain, messages),
                                          batchScalar)
                      wg2e == G2ScalarMul(G2Add(publicKey.W,
                                                G2ScalarMul(publicKey.G2, signature.E)),
                                          batchScalar)
                      negG2 == G2Neg(publicKey.G2)
                  IN  BatchSigLoop(in, i + 1, dc.cache,
                                   g1Points \o <<signature.A, B>>,
                                   g2Points \o <<wg2e, negG2>>)

\* SignatureManager.BatchVerifySignatures
BatchVerifySignatures(cache, publicKeys, signatures, messagesList, headers, rho) ==
    IF Len(publicKeys) # Len(signatures) \/ Len(signatures) # Len(messagesList)
    THEN [err |-> "ErrInvalidArrayLengths", cache |-> cache]
    ELSE IF Len(headers) # 0 /\ Len(headers) # Len(signatures)
    THEN [err |-> "ErrInvalidArrayLengths", cache |-> cache]
    ELSE IF Len(signatures) = 1
    THEN IF Len(headers) = 0
         THEN [err |-> "panic", cache |-> cache]
         ELSE VerifyWithPooling(cache, publicKeys[1], signatures[1],
                                messagesList[1], headers[1])
    ELSE LET slice == GetScalarSlice(Len(signatures))
             batchScalars == [k \in 1 .. Len(slice) |-> rho[k]]
             loop == BatchSigLoop([publicKeys |-> publicKeys, signatures |-> signatures,
                                   messagesList |-> messagesList, headers |-> headers,
                                   batchScalars |-> batchScalars],
                                  0, cache, <<>>, <<>>)
             pairingResult == Pair(loop.g1Points, loop.g2Points)
         IN  [err |-> IF loop.panic THEN "panic"
                      ELSE IF pairingResult.err THEN "ErrPairingFailed"
                      ELSE IF ~IsOne(pairingResult) THEN "ErrInvalidSignature"
                      ELSE "nil",
              cache |-> loop.cache]

(***************************************************************************)
(* Proofs of knowledge with selective disclosure.                          *)
(***************************************************************************)
\* make([]int, length, capacity)
MakeInts(length, capacity) == [k \in 1 .. length |-> 0]

\* copy(dst, src): copies min(len(dst), len(src)) elements into dst
Copy(dst, src) ==
    [k \in 1 .. Len(dst) |-> IF k <= Len(src) THEN src[k] ELSE dst[k]]

\* sort.Ints
RECURSIVE SortInts(_)
SortInts(s) ==
    IF s = <<>> THEN <<>>
    ELSE LET k == CHOOSE j \in 1 .. Len(s) : \A l \in 1 .. Len(s) : s[j] <= s[l]
         IN  <<s[k]>> \o SortInts(SubSeq(s, 1, k - 1) \o SubSeq(s, k + 1, Len(s)))

\* the keys of a map, in ascending order
RECURSIVE KeysAscending(_)
KeysAscending(S) ==
    IF S = {} THEN <<>>
    ELSE LET k == CHOOSE j \in S : \A l \in S : j <= l
         IN  <<k>> \o KeysAscending(S \ {k})

ComputeProofChallenge(APrime, ABar, D, disclosedIndices, disclosedMessages) ==
    LET sortedIndices == SortInts(Copy(MakeInts(0, Len(disclosedIndices)),
                                       disclosedIndices))
        entry(idx) == LET msgBytes == BigIntBytes(disclosedMessages[idx])
                      IN  U32BE(idx) \o U32BE(Len(msgBytes)) \o msgBytes
        buff == MarshalG1(APrime) \o MarshalG1(ABar) \o MarshalG1(D)
                \o Concat([k \in 1 .. Len(sortedIndices) |-> entry(sortedIndices[k])])
    IN  Mod(SHA256(buff))

batchSize == 8

\* MultiScalarMulG1: the full batches, then the remaining points
MultiScalarMulG1(points, scalars) ==
    IF Len(points) # Len(scalars)
    THEN [err |-> TRUE, point |-> 0]
    ELSE LET term(j) == IF scalars[j] = 0 \/ points[j] = 0
                        THEN 0
                        ELSE G1ScalarMul(points[j], scalars[j])
             full == (Len(points) \div batchSize) * batchSize
             terms == [j \in 1 .. Len(points) |-> term(j)]
         IN  [err |-> FALSE,
              point |-> G1Add(Mod(SumSet(1 .. full, terms)),
                              Mod(SumSet((full + 1) .. Len(points), terms)))]

NoProof == [APrime |-> 0, ABar |-> 0, D |-> 0, C |-> 0, EHat |-> 0, SHat |-> 0,
            MHat |-> <<>>]

\* the elements of a sequence
Range(s) == {s[k] : k \in DOMAIN s}

\* CreateProof and CreateProofWithPooling after their input checks; rnd is
\* what the randomness source returns, in the order it is asked
ProofBody(publicKey, signature, messages, disclosedIndices, rnd) ==
    LET disclosedMap == Range(disclosedIndices)
        disclosedMessages == [idx \in disclosedMap |-> MsgAt(messages, idx)]
        hidden == KeysAscending((0 .. (Len(messages) - 1)) \ disclosedMap)
        r == rnd[1]
        APrime == G1Add(signature.A, G1ScalarMul(publicKey.G1, r))
        ABar == G1Add(APrime,
                      Mod(SumSet(Range(hidden),
                                 [i \in Range(hidden) |->
                                    G1ScalarMul(HAt(publicKey, i + 2),
                                                Mod(MsgAt(messages, i) * r))])))
        eBlind == rnd[2]
        sBlind == rnd[3]
        domainBlind == rnd[4]
        mBlind == [i \in Range(hidden) |->
                      rnd[4 + (CHOOSE k \in 1 .. Len(hidden) : hidden[k] = i)]]
        D == G1Add(G1Add(G1ScalarMul(HAt(publicKey, 0), sBlind),
                         G1ScalarMul(HAt(publicKey, 1), domainBlind)),
                   Mod(SumSet(Range(hidden),
                              [i \in Range(hidden) |->
                                 G1ScalarMul(HAt(publicKey, i + 2), mBlind[i])])))
        c == ComputeProofChallenge(APrime, ABar, D, disclosedIndices, disclosedMessages)
    IN  [err |-> "nil",
         proof |-> [APrime |-> APrime, ABar |-> ABar, D |-> D, C |-> c,
                    EHat |-> Mod(signature.E * c + eBlind),
                    SHat |-> Mod(signature.S * c + sBlind),
                    MHat |-> [i \in Range(hidden) |->
                                 Mod(MsgAt(messages, i) * c + mBlind[i])]],
         disclosedMessages |-> disclosedMessages]

\* the input checks shared by CreateProof and CreateProofWithPooling
ProofInputError(publicKey, messages, disclosedIndices) ==
    IF Len(messages) # publicKey.MessageCount THEN "ErrInvalidMessageCount"
    ELSE IF \E k \in DOMAIN disclosedIndices :
               disclosedIndices[k] < 0 \/ disclosedIndices[k] >= Len(messages)
    THEN "invalid disclosed index"
    ELSE "nil"

CreateProof(publicKey, signature, messages, disclosedIndices, header, rnd) ==
    LET inputErr == ProofInputError(publicKey, messages, disclosedIndices)
    IN  IF inputErr # "nil"
        THEN [err |-> inputErr, proof |-> NoProof, disclosedMessages |-> <<>>]
        ELSE ProofBody(publicKey, signature, messages, disclosedIndices, rnd)

CreateProofWithPooling(cache, publicKey, signature, messages, disclosedIndices, header, rnd) ==
    LET inputErr == ProofInputError(publicKey, messages, disclosedIndices)
    IN  IF inputErr # "nil"
        THEN [err |-> inputErr, proof |-> NoProof, disclosedMessages |-> <<>>,
              cache |-> cache]
        ELSE ProofBody(publicKey, signature, messages, disclosedIndices, rnd)
             @@ [cache |-> getDomainCached(cache, publicKey, header).cache]

\* the part of VerifyProof and VerifyProofWithPooling that precedes the
\* domain: the index check and the recomputed challenge
ProofPrecheck(publicKey, proof, disclosedMessages) ==
    IF \E idx \in DOMAIN disclosedMessages : idx < 0 \/ idx >= publicKey.MessageCount
    THEN "invalid disclosed message index"
    ELSE LET disclosedIndices == SortInts(KeysAscending(DOMAIN disclosedMessages))
             c == ComputeProofChallenge(proof.APrime, proof.ABar, proof.D,
                                        disclosedIndices, disclosedMessages)
         IN  IF c # proof.C THEN "ErrInvalidSignature" ELSE "nil"

\* the part of VerifyProof and VerifyProofWithPooling that follows the domain:
\* g1b, T and the pairing check e(A', W) * e(g1b, -g2) * e(T, g2) = 1
ProofEquation(publicKey, proof, disclosedMessages, domain) ==
    IF \E idx \in DOMAIN proof.MHat : idx + 2 < 0 \/ idx + 2 >= Len(publicKey.H)
    THEN "panic"
    ELSE LET dIdx == KeysAscending(DOMAIN disclosedMessages)
             hIdx == KeysAscending(DOMAIN proof.MHat)
             points == <<publicKey.G1, HAt(publicKey, 0), HAt(publicKey, 1)>>
                       \o [k \in 1 .. Len(dIdx) |-> HAt(publicKey, dIdx[k] + 2)]
                       \o [k \in 1 .. Len(hIdx) |-> HAt(publicKey, hIdx[k] + 2)]
                       \o <<proof.D>>
             negC == Mod(0 - proof.C)
             scalars == <<1, proof.SHat, domain>>
                        \o [k \in 1 .. Len(dIdx) |-> disclosedMessages[dIdx[k]]]
                        \o [k \in 1 .. Len(hIdx) |-> proof.MHat[hIdx[k]]]
                        \o <<negC>>
             g1b == MultiScalarMulG1(points, scalars)
             T == MultiScalarMulG1(<<proof.ABar, proof.D>>, <<proof.C, 1>>)
             negG2 == G2Neg(publicKey.G2)
             pairingResult == Pair(<<proof.APrime, g1b.point, T.point>>,
                                   <<publicKey.W, negG2, publicKey.G2>>)
         IN  IF g1b.err \/ T.err THEN "failed multi-scalar multiplication"
             ELSE IF pairingResult.err THEN "ErrPairingFailed"
             ELSE IF ~IsOne(pairingResult) THEN "ErrInvalidSignature"
             ELSE "nil"

VerifyProof(publicKey, proof, disclosedMessages, header) ==
    LET pre == ProofPrecheck(publicKey, proof, disclosedMessages)
    IN  IF pre # "nil" THEN pre
        ELSE ProofEquation(publicKey, proof, disclosedMessages,
                           CalculateDomain(publicKey, header))

VerifyProofWithPooling(cache, publicKey, proof, disclosedMessages, header) ==
    LET pre == ProofPrecheck(publicKey, proof, disclosedMessages)
    IN  IF pre # "nil" THEN [err |-> pre, cache |-> cache]
        ELSE LET dc == getDomainCached(cache, publicKey, header)
             IN  [err |-> ProofEquation(publicKey, proof, disclosedMessages, dc.domain),
                  cache |-> dc.cache]

\* ExtendProofWithPooling, which ExtendProof wraps; e and s are what the
\* randomness source returns
ExtendProofWithPooling(proof, disclosedMessages, additionalIndices, secretMessages, publicKey, e, s) ==
    LET bad(idx) == \/ idx \in DOMAIN disclosedMessages
                    \/ idx \notin DOMAIN secretMessages
                    \/ idx < 0
                    \/ idx >= publicKey.MessageCount
        inputErr ==
            IF \E k \in DOMAIN additionalIndices : bad(additionalIndices[k])
            THEN LET k == CHOOSE j \in DOMAIN additionalIndices :
                              /\ bad(additionalIndices[j])
                              /\ \A l \in 1 .. (j - 1) : ~bad(additionalIndices[l])
                     idx == additionalIndices[k]
                 IN  IF idx \in DOMAIN disclosedMessages THEN "already disclosed"
                     ELSE IF idx \notin DOMAIN secretMessages
                     THEN "secret message not provided"
                     ELSE "invalid message index"
            ELSE "nil"
        added == Range(additionalIndices)
        newDisclosedMessages ==
            [idx \in DOMAIN disclosedMessages \cup added |->
                IF idx \in added THEN secretMessages[idx] ELSE disclosedMessages[idx]]
        newABar == G1Add(proof.ABar,
                         Mod(SumSet(DOMAIN additionalIndices,
                                    [k \in DOMAIN additionalIndices |->
                                       G1ScalarMul(HAt(publicKey, additionalIndices[k] + 2),
                                                   Mod(0 - secretMessages[additionalIndices[k]]
                                                           * proof.C))])))
        c == ComputeProofChallenge(proof.APrime, newABar, proof.D,
                                   additionalIndices, newDisclosedMessages)
    IN  IF inputErr # "nil"
        THEN [err |-> inputErr, proof |-> NoProof, disclosedMessages |-> <<>>]
        ELSE [err |-> "nil",
              proof |-> [APrime |-> proof.APrime, ABar |-> newABar, D |-> proof.D,
                         C |-> c,
                         EHat |-> Mod(proof.EHat + e),
                         SHat |-> Mod(proof.SHat + s),
                         MHat |-> [idx \in DOMAIN proof.MHat \ added |-> proof.MHat[idx]]],
              disclosedMessages |-> newDisclosedMessages]

ExtendProof(proof, disclosedMessages, additionalIndices, secretMessages, publicKey, e, s) ==
    ExtendProofWithPooling(proof, disclosedMessages, additionalIndices,
                           secretMessages, publicKey, e, s)

\* the per-proof loop of BatchVerifyProofs from index i on
RECURSIVE BatchProofLoop(_, _, _, _)
BatchProofLoop(in, i, g1Points, g2Points) ==
    IF i >= Len(in.proofs)
    THEN [err |-> "nil", g1Points |-> g1Points, g2Points |-> g2Points]
    ELSE LET publicKey == in.publicKeys[i + 1]
             proof == in.proofs[i + 1]
             disclosedMessages == in.disclosedMessagesList[i + 1]
             domain == IF i < Len(in.headers)
                       THEN CalculateDomain(publicKey, in.headers[i + 1])
                       ELSE CalculateDomain(publicKey, <<>>)
         IN  IF i >= Len(in.batchScalars)
             THEN [err |-> "panic", g1Points |-> g1Points, g2Points |-> g2Points]
             ELSE LET batchScalar == in.batchScalars[i + 1]
                      dIdx == KeysAscending(DOMAIN disclosedMessages)
                      points == <<publicKey.G1, HAt(publicKey, 0), HAt(publicKey, 1)>>
                                \o [k \in 1 .. Len(dIdx) |-> HAt(publicKey, dIdx[k] + 2)]
                      scalars == <<batchScalar, Mod(proof.SHat * batchScalar),
                                   Mod(domain * batchScalar)>>
                                 \o [k \in 1 .. Len(dIdx) |->
                                       Mod(Mod(0 - disclosedMessages[dIdx[k]] * proof.C)
                                           * batchScalar)]
                      g1b == MultiScalarMulG1(points, scalars)
                      T == MultiScalarMulG1(<<proof.ABar, proof.D>>,
                                            <<Mod(proof.C * batchScalar), batchScalar>>)
                  IN  IF g1b.err \/ T.err
                      THEN [err |-> "failed multi-scalar multiplication",
                            g1Points |-> g1Points, g2Points |-> g2Points]
                      ELSE BatchProofLoop(in, i + 1,
                                          g1Points \o <<g1b.point, T.point>>,
                                          g2Points \o <<G2Neg(publicKey.G2), publicKey.G2>>)

BatchVerifyProofs(publicKeys, proofs, disclosedMessagesList, headers, rho) ==
    IF Len(publicKeys) # Len(proofs) \/ Len(proofs) # Len(disclosedMessagesList)
    THEN "mismatched array lengths"
    ELSE IF Len(headers) # 0 /\ Len(headers) # Len(proofs)
    THEN "headers array length does not match"
    ELSE IF Len(proofs) = 0 THEN "nil"
    ELSE IF Len(proofs) = 1
    THEN IF Len(headers) = 0 THEN "panic"
         ELSE VerifyProof(publicKeys[1], proofs[1], disclosedMessagesList[1], headers[1])
    ELSE IF \E k \in DOMAIN proofs :
               ComputeProofChallenge(proofs[k].APrime, proofs[k].ABar, proofs[k].D,
                   SortInts(KeysAscending(DOMAIN disclosedMessagesList[k])),
                   disclosedMessagesList[k]) # proofs[k].C
    THEN "challenge verification failed"
    ELSE LET slice == GetScalarSlice(Len(proofs))
             batchScalars == [k \in 1 .. Len(slice) |-> rho[k]]
             loop == BatchProofLoop([publicKeys |-> publicKeys, proofs |-> proofs,
                                     disclosedMessagesList |-> disclosedMessagesList,
                                     headers |-> headers, batchScalars |-> batchScalars],
                                    0, <<>>, <<>>)
             pairingResult == Pair(loop.g1Points, loop.g2Points)
         IN  IF loop.err # "nil" THEN loop.err
             ELSE IF pairingResult.err THEN "ErrPairingFailed"
             ELSE IF ~IsOne(pairingResult) THEN "ErrInvalidSignature"
             ELSE "nil"

(***************************************************************************)
(* The callers: what they pass to the library.                             *)
(***************************************************************************)
\* the message vectors the callers sign and verify
MessageVectors(L) == {[i \in 1 .. L |-> Mod(i * k)] : k \in 0 .. MaxMsg}

Signatures == [A : Scalars, E : Scalars, S : Scalars]

\* the signatures that differ from sig in exactly one component
OneComponentReplaced(sig) ==
    {s2 \in Signatures :
        Cardinality({f \in {"A", "E", "S"} : s2[f] # sig[f]}) = 1}

\* the items a caller batches: signatures made by Sign over a fixed message
\* vector under the current key or under another one, left intact or with s
\* replaced
BatchSigItems ==
    {[pk |-> k.pk,
      sig |-> LET ones == [i \in 1 .. k.pk.MessageCount |-> 1]
                  e    == IF Mod(k.sk.X + 1) = 0 THEN 2 ELSE 1
                  sg   == Sign(k.sk, k.pk, ones, h, e, 1).sig
              IN  IF bad THEN [sg EXCEPT !.S = Mod(sg.S + 1)] ELSE sg,
      messages |-> [i \in 1 .. k.pk.MessageCount |-> 1], header |-> h] :
        k \in {kp, [kind |-> "keypair"]
                     @@ GenerateKeyPair(kp.pk.MessageCount, Mod(kp.sk.X + 1))},
        h \in Headers, bad \in BOOLEAN}

(***************************************************************************)
(* The state machine.                                                      *)
(***************************************************************************)
Init ==
    /\ kp = None
    /\ sigRes = None
    /\ verRes = None
    /\ sigCache = EmptyCache
    /\ proofRes = None
    /\ pverRes = None
    /\ proofCache = EmptyCache
    /\ held = None
    /\ bigIntPool = {}
    /\ fnRes = None
    /\ batch = None
    /\ calls = None
    /\ kr = None

GenerateKeyPairAct ==
    /\ \E x \in Scalars :
          kp' = [kind |-> "keypair"] @@ GenerateKeyPair(MaxL, x)
    /\ sigRes' = None
    /\ verRes' = None
    /\ proofRes' = None
    /\ pverRes' = None
    /\ UNCHANGED <<batch, calls, kr, fnRes, held, bigIntPool, sigCache, proofCache>>

SignAct ==
    /\ kp # None
    /\ \E messages \in MessageVectors(kp.pk.MessageCount), header \in Headers,
          e \in Scalars, s \in Scalars :
          LET r == Sign(kp.sk, kp.pk, messages, header, e, s)
          IN  sigRes' = [kind |-> "signed", by |-> "Sign", pk |-> kp.pk,
                         messages |-> messages, header |-> header,
                         err |-> r.err, sig |-> r.sig]
    /\ verRes' = None
    /\ UNCHANGED <<batch, calls, kr, fnRes, held, bigIntPool, kp, sigCache, proofRes, pverRes, proofCache>>

SignWithPoolingAct ==
    /\ kp # None
    /\ \E messages \in MessageVectors(kp.pk.MessageCount), header \in Headers,
          e \in Scalars, s \in Scalars :
          LET r == SignWithPooling(sigCache, kp.sk, kp.pk, messages, header, e, s)
          IN  /\ sigRes' = [kind |-> "signed", by |-> "SignWithPooling", pk |-> kp.pk,
                            messages |-> messages, header |-> header,
                            err |-> r.err, sig |-> r.sig]
              /\ sigCache' = r.cache
    /\ verRes' = None
    /\ UNCHANGED <<batch, calls, kr, fnRes, held, bigIntPool, kp, proofRes, pverRes, proofCache>>

\* Verify called on the signature that was just returned
VerifyAct ==
    /\ sigRes # None
    /\ sigRes.err = "nil"
    /\ verRes' = [kind |-> "verified", by |-> "Verify", pk |-> sigRes.pk,
                  sig |-> sigRes.sig, messages |-> sigRes.messages,
                  header |-> sigRes.header, signedBy |-> sigRes.by,
                  err |-> Verify(sigRes.pk, sigRes.sig, sigRes.messages, sigRes.header)]
    /\ sigRes' = None
    /\ UNCHANGED <<batch, calls, kr, fnRes, held, bigIntPool, kp, sigCache, proofRes, pverRes, proofCache>>

\* VerifyWithPooling called on any signature
VerifyWithPoolingAct ==
    /\ kp # None
    /\ \E signature \in Signatures, messages \in MessageVectors(kp.pk.MessageCount),
          header \in Headers :
          LET r == VerifyWithPooling(sigCache, kp.pk, signature, messages, header)
          IN  /\ verRes' = [kind |-> "verified", by |-> "VerifyWithPooling",
                            pk |-> kp.pk, sig |-> signature, messages |-> messages,
                            header |-> header, signedBy |-> "any", err |-> r.err]
              /\ sigCache' = r.cache
    /\ sigRes' = None
    /\ UNCHANGED <<batch, calls, kr, fnRes, held, bigIntPool, kp, proofRes, pverRes, proofCache>>

BatchVerifySignaturesAct ==
    /\ kp # None
    /\ \E n \in 0 .. MaxBatch :
        \E items \in [1 .. n -> BatchSigItems], withHeaders \in BOOLEAN,
           rho \in [1 .. Len(GetScalarSlice(n)) -> Scalars] :
          LET r == BatchVerifySignatures(sigCache,
                       [k \in 1 .. n |-> items[k].pk], [k \in 1 .. n |-> items[k].sig],
                       [k \in 1 .. n |-> items[k].messages],
                       IF withHeaders THEN [k \in 1 .. n |-> items[k].header] ELSE <<>>,
                       rho)
          IN  /\ verRes' = [kind |-> "batch", items |-> items,
                            withHeaders |-> withHeaders,
                            batchScalars |-> [k \in 1 .. Len(GetScalarSlice(n)) |-> rho[k]],
                            err |-> r.err]
              /\ sigCache' = r.cache
    /\ sigRes' = None
    /\ UNCHANGED <<batch, calls, kr, fnRes, held, bigIntPool, kp, proofRes, pverRes, proofCache>>

Next ==
    \/ GenerateKeyPairAct
    \/ SignAct
    \/ SignWithPoolingAct
    \/ VerifyAct
    \/ VerifyWithPoolingAct
    \/ BatchVerifySignaturesAct

Spec == Init /\ [][Next]_vars

(***************************************************************************)
(* The callers of the proof functions.                                     *)
(***************************************************************************)
\* what the randomness source returns over n draws
RandomTapes(n) == {[k \in 1 .. n |-> Mod(a + b * k)] : a \in Scalars, b \in Scalars}

\* a signature that Sign returns for the current key
SignatureFor(messages, header) ==
    Sign(kp.sk, kp.pk, messages, header, IF Mod(kp.sk.X + 1) = 0 THEN 2 ELSE 1, 1).sig

\* the disclosure sets, as index lists
DisclosureLists(L) == {KeysAscending(S) : S \in SUBSET (0 .. (L - 1))}

\* the disclosed maps a verifier can be shown
DisclosedMaps(L) == UNION {[S -> Scalars] : S \in SUBSET (0 .. (L - 1))}

\* the maps that differ from M by one changed value, one added index or one
\* removed index
OneEntryChanged(M, L) ==
    {M2 \in DisclosedMaps(L) :
        /\ M2 # M
        /\ Cardinality({i \in DOMAIN M \cup DOMAIN M2 :
                           \/ i \notin DOMAIN M
                           \/ i \notin DOMAIN M2
                           \/ M[i] # M2[i]}) = 1}

\* the proofs that differ from proof in exactly one component
OneProofComponentReplaced(proof) ==
    {p2 \in {[proof EXCEPT ![f] = v] :
                f \in {"APrime", "ABar", "D", "C", "EHat", "SHat"}, v \in Scalars}
            \cup {[proof EXCEPT !.MHat[i] = v] :
                    i \in DOMAIN proof.MHat, v \in Scalars} :
        p2 # proof}

\* a proof assembled from the public key and the disclosed values alone:
\* A' is the identity, D is the point the verifier's g1b starts from and
\* A-bar is its negation
ForgeProof(publicKey, disclosedMessages, header) ==
    LET hidden == (0 .. (publicKey.MessageCount - 1)) \ DOMAIN disclosedMessages
        M == G1Add(G1Add(publicKey.G1,
                         G1ScalarMul(HAt(publicKey, 1), CalculateDomain(publicKey, header))),
                   Mod(SumSet(DOMAIN disclosedMessages,
                              [i \in DOMAIN disclosedMessages |->
                                 G1ScalarMul(HAt(publicKey, i + 2), disclosedMessages[i])])))
    IN  [APrime |-> 0, ABar |-> G1Neg(M), D |-> M,
         C |-> ComputeProofChallenge(0, G1Neg(M), M,
                                     KeysAscending(DOMAIN disclosedMessages),
                                     disclosedMessages),
         EHat |-> 0, SHat |-> 0, MHat |-> [i \in hidden |-> 0]]

\* what a verifier can be shown for a proof that was returned: the proof as it
\* is or, unless the proof is an extended one, one entry of the disclosed map
\* changed, another header, or one component of the proof replaced
Presentations(res) ==
    LET asReturned == [proof |-> res.proof,
                       disclosedMessages |-> res.disclosedMessages,
                       header |-> res.header]
    IN  IF res.by = "ExtendProof" THEN {asReturned}
        ELSE {asReturned}
             \cup {[asReturned EXCEPT !.disclosedMessages = M2] :
                     M2 \in OneEntryChanged(res.disclosedMessages, kp.pk.MessageCount)}
             \cup {[asReturned EXCEPT !.header = h2] : h2 \in Headers \ {res.header}}
             \cup {[asReturned EXCEPT !.proof = p2] :
                     p2 \in OneProofComponentReplaced(res.proof)}

\* the items a caller batches: proofs that VerifyProof accepts, left intact
\* or with s-hat replaced
BatchProofItems ==
    {[pk |-> kp.pk,
      proof |-> LET pr == ForgeProof(kp.pk, (0 :> 1), h)
                IN  IF bad THEN [pr EXCEPT !.SHat = Mod(pr.SHat + 1)] ELSE pr,
      disclosedMessages |-> (0 :> 1), header |-> h] :
        h \in Headers, bad \in BOOLEAN}

CreateProofAct ==
    /\ kp # None
    /\ proofRes = None
    /\ pverRes = None
    /\ \E messages \in MessageVectors(kp.pk.MessageCount), header \in Headers,
          disclosedIndices \in DisclosureLists(kp.pk.MessageCount),
          rnd \in RandomTapes(MaxL + 4) :
          LET r == CreateProof(kp.pk, SignatureFor(messages, header), messages,
                               disclosedIndices, header, rnd)
          IN  proofRes' = [kind |-> "proof", by |-> "CreateProof",
                           messages |-> messages, header |-> header,
                           disclosedIndices |-> disclosedIndices, err |-> r.err,
                           proof |-> r.proof, disclosedMessages |-> r.disclosedMessages]
    /\ UNCHANGED <<batch, calls, kr, fnRes, held, bigIntPool, kp, sigRes, verRes, sigCache, pverRes, proofCache>>

CreateProofWithPoolingAct ==
    /\ kp # None
    /\ proofRes = None
    /\ pverRes = None
    /\ \E messages \in MessageVectors(kp.pk.MessageCount), header \in Headers,
          disclosedIndices \in DisclosureLists(kp.pk.MessageCount),
          rnd \in RandomTapes(MaxL + 4) :
          LET r == CreateProofWithPooling(proofCache, kp.pk,
                                          SignatureFor(messages, header), messages,
                                          disclosedIndices, header, rnd)
          IN  /\ proofRes' = [kind |-> "proof", by |-> "CreateProofWithPooling",
                              messages |-> messages, header |-> header,
                              disclosedIndices |-> disclosedIndices, err |-> r.err,
                              proof |-> r.proof,
                              disclosedMessages |-> r.disclosedMessages]
              /\ proofCache' = r.cache
    /\ UNCHANGED <<batch, calls, kr, fnRes, held, bigIntPool, kp, sigRes, verRes, sigCache, pverRes>>

\* a proof put together without any signature
ForgeAct ==
    /\ kp # None
    /\ proofRes = None
    /\ pverRes = None
    /\ \E disclosedMessages \in DisclosedMaps(kp.pk.MessageCount), header \in Headers :
          proofRes' = [kind |-> "proof", by |-> "Forge", messages |-> <<>>,
                       header |-> header,
                       disclosedIndices |-> KeysAscending(DOMAIN disclosedMessages),
                       err |-> "nil",
                       proof |-> ForgeProof(kp.pk, disclosedMessages, header),
                       disclosedMessages |-> disclosedMessages]
    /\ UNCHANGED <<batch, calls, kr, fnRes, held, bigIntPool, kp, sigRes, verRes, sigCache, pverRes, proofCache>>

ExtendProofAct ==
    /\ proofRes.kind = "proof"
    /\ proofRes.err = "nil"
    /\ proofRes.by \in {"CreateProof", "CreateProofWithPooling"}
    /\ \E additionalIndices \in DisclosureLists(kp.pk.MessageCount) \ {<<>>},
          rnd \in RandomTapes(2) :
          /\ Range(additionalIndices) \cap DOMAIN proofRes.disclosedMessages = {}
          /\ LET secretMessages == [i \in 0 .. (Len(proofRes.messages) - 1) |->
                                       MsgAt(proofRes.messages, i)]
                 r == ExtendProof(proofRes.proof, proofRes.disclosedMessages,
                                  additionalIndices, secretMessages, kp.pk,
                                  rnd[1], rnd[2])
             IN  proofRes' = [kind |-> "proof", by |-> "ExtendProof",
                              messages |-> proofRes.messages,
                              header |-> proofRes.header,
                              disclosedIndices |-> KeysAscending(DOMAIN r.disclosedMessages),
                              err |-> r.err, proof |-> r.proof,
                              disclosedMessages |-> r.disclosedMessages]
    /\ UNCHANGED <<batch, calls, kr, fnRes, held, bigIntPool, kp, sigRes, verRes, sigCache, pverRes, proofCache>>

\* VerifyProof called on a returned proof, as it is or altered
VerifyProofAct ==
    /\ proofRes.kind = "proof"
    /\ proofRes.err = "nil"
    /\ \E shown \in Presentations(proofRes) :
          pverRes' = [kind |-> "pverified", by |-> "VerifyProof", origin |-> proofRes,
                      proof |-> shown.proof,
                      disclosedMessages |-> shown.disclosedMessages,
                      header |-> shown.header,
                      err |-> VerifyProof(kp.pk, shown.proof, shown.disclosedMessages,
                                          shown.header)]
    /\ proofRes' = None
    /\ UNCHANGED <<batch, calls, kr, fnRes, held, bigIntPool, kp, sigRes, verRes, sigCache, proofCache>>

VerifyProofWithPoolingAct ==
    /\ proofRes.kind = "proof"
    /\ proofRes.err = "nil"
    /\ \E shown \in Presentations(proofRes) :
          LET r == VerifyProofWithPooling(proofCache, kp.pk, shown.proof,
                                          shown.disclosedMessages, shown.header)
          IN  /\ pverRes' = [kind |-> "pverified", by |-> "VerifyProofWithPooling",
                             origin |-> proofRes, proof |-> shown.proof,
                             disclosedMessages |-> shown.disclosedMessages,
                             header |-> shown.header, err |-> r.err]
              /\ proofCache' = r.cache
    /\ proofRes' = None
    /\ UNCHANGED <<batch, calls, kr, fnRes, held, bigIntPool, kp, sigRes, verRes, sigCache>>

BatchVerifyProofsAct ==
    /\ kp # None
    /\ proofRes = None
    /\ pverRes = None
    /\ \E n \in 0 .. MaxBatch :
        \E items \in [1 .. n -> BatchProofItems], withHeaders \in BOOLEAN,
           rho \in [1 .. Len(GetScalarSlice(n)) -> Scalars] :
          pverRes' = [kind |-> "batch", items |-> items, withHeaders |-> withHeaders,
                      batchScalars |-> [k \in 1 .. Len(GetScalarSlice(n)) |-> rho[k]],
                      err |-> BatchVerifyProofs(
                                 [k \in 1 .. n |-> items[k].pk],
                                 [k \in 1 .. n |-> items[k].proof],
                                 [k \in 1 .. n |-> items[k].disclosedMessages],
                                 IF withHeaders THEN [k \in 1 .. n |-> items[k].header]
                                 ELSE <<>>,
                                 rho)]
    /\ UNCHANGED <<batch, calls, kr, fnRes, held, bigIntPool, kp, sigRes, verRes, sigCache, proofRes, proofCache>>

NextProof ==
    \/ GenerateKeyPairAct
    \/ CreateProofAct
    \/ CreateProofWithPoolingAct
    \/ ForgeAct
    \/ ExtendProofAct
    \/ VerifyProofAct
    \/ VerifyProofWithPoolingAct
    \/ BatchVerifyProofsAct

SpecProof == Init /\ [][NextProof]_vars

(***************************************************************************)
(* The claims about proofs.                                                *)
(***************************************************************************)
\* the proof, the disclosed map and the header are shown as they were returned
ShownAsReturned ==
    /\ pverRes.proof = pverRes.origin.proof
    /\ pverRes.disclosedMessages = pverRes.origin.disclosedMessages
    /\ pverRes.header = pverRes.origin.header

\* C2: the proof and the disclosed map that CreateProof returns for a
\* signature Verify accepts are accepted by VerifyProof and by
\* VerifyProofWithPooling under the same public key and header.
C2_CreatedProofAccepted ==
    (/\ pverRes.kind = "pverified"
     /\ pverRes.origin.by = "CreateProof"
     /\ ShownAsReturned)
    => pverRes.err = "nil"

\* C3: VerifyProof accepts only proofs derived from a signature that Verify
\* accepts; a proof assembled from the public key and the disclosed values
\* alone is not accepted.
C3_ForgedProofRejected ==
    (/\ pverRes.kind = "pverified"
     /\ pverRes.by = "VerifyProof"
     /\ pverRes.origin.by = "Forge")
    => pverRes.err # "nil"

\* C4: a proof created by CreateProof with disclosed map M is rejected by
\* VerifyProof when it is shown with a disclosed map different from M.
C4_OtherDisclosedMapRejected ==
    (/\ pverRes.kind = "pverified"
     /\ pverRes.by = "VerifyProof"
     /\ pverRes.origin.by = "CreateProof"
     /\ pverRes.proof = pverRes.origin.proof
     /\ pverRes.header = pverRes.origin.header
     /\ pverRes.disclosedMessages # pverRes.origin.disclosedMessages)
    => pverRes.err # "nil"

EachProofAccepted(items, withHeaders) ==
    \A k \in DOMAIN items :
        VerifyProof(items[k].pk, items[k].proof, items[k].disclosedMessages,
                    IF withHeaders THEN items[k].header ELSE <<>>) = "nil"

\* C6: BatchVerifyProofs accepts exactly when VerifyProof accepts every item
\* on its own, and returns an error otherwise.
C6_BatchProofsAgreeWithVerifyProof ==
    pverRes.kind = "batch"
    => /\ pverRes.err = "nil" <=> EachProofAccepted(pverRes.items, pverRes.withHeaders)
       /\ pverRes.err # "panic"

\* C7: when a proof that VerifyProof accepts has one component replaced by a
\* different value, VerifyProof and VerifyProofWithPooling reject it.
C7_ReplacedProofComponentRejected ==
    (/\ pverRes.kind = "pverified"
     /\ pverRes.proof \in OneProofComponentReplaced(pverRes.origin.proof)
     /\ VerifyProof(kp.pk, pverRes.origin.proof, pverRes.origin.disclosedMessages,
                    pverRes.origin.header) = "nil")
    => pverRes.err # "nil"

\* C10: the proof and the disclosed map that ExtendProof returns for a proof
\* made by CreateProof and additional hidden indices are accepted by
\* VerifyProofWithPooling under the same public key and header.
C10_ExtendedProofAccepted ==
    (/\ pverRes.kind = "pverified"
     /\ pverRes.by = "VerifyProofWithPooling"
     /\ pverRes.origin.by = "ExtendProof")
    => pverRes.err = "nil"

(***************************************************************************)
(* The claims about signing and signature verification.                    *)
(***************************************************************************)

\* C1: a signature returned by Sign or by SignWithPooling is accepted by
\* Verify called with the same public key, messages and header.
C1_SignedIsAccepted ==
    (verRes.kind = "verified" /\ verRes.by = "Verify") => verRes.err = "nil"

\* a signature whose A is the identity, or whose e makes W + e*G2 the identity
Degenerate(pk, sig) ==
    sig.A = 0 \/ G2Add(pk.W, G2ScalarMul(pk.G2, sig.E)) = 0

\* C8: when a signature accepted by Verify has one of A, e, s replaced by a
\* different value, Verify and VerifyWithPooling reject the result; stated
\* here for the signatures whose A and W + e*G2 are not the identity.
C8_ReplacedComponentRejected ==
    (/\ verRes.kind = "verified"
     /\ verRes.by = "VerifyWithPooling"
     /\ \E sig0 \in Signatures :
           /\ verRes.sig \in OneComponentReplaced(sig0)
           /\ ~Degenerate(verRes.pk, sig0)
           /\ ~Degenerate(verRes.pk, verRes.sig)
           /\ Verify(verRes.pk, sig0, verRes.messages, verRes.header) = "nil")
    => /\ verRes.err # "nil"
       /\ Verify(verRes.pk, verRes.sig, verRes.messages, verRes.header) # "nil"

\* every item of the batch is accepted by Verify on its own
EachItemAccepted(items, withHeaders) ==
    \A k \in DOMAIN items :
        Verify(items[k].pk, items[k].sig, items[k].messages,
               IF withHeaders THEN items[k].header ELSE <<>>) = "nil"

\* C9: BatchVerifySignatures returns nil exactly when Verify accepts every
\* item on its own; stated here for the batches of at least one item.
C9_BatchAgreesWithVerify ==
    (verRes.kind = "batch" /\ Len(verRes.items) >= 1)
    => (verRes.err = "nil" <=> EachItemAccepted(verRes.items, verRes.withHeaders))

(***************************************************************************)
(* The domain caches.                                                      *)
(***************************************************************************)
\* the public keys a caller can hold: every key GenerateKeyPair returns
CallerKeys == {GenerateKeyPair(MaxL, x).pk : x \in Scalars}

\* C11: after any sequence of calls on a SignatureManager or a ProofManager,
\* for every public key and header, the domain that getDomainCached returns
\* is CalculateDomain of that key and header
C11_CachedDomainIsCalculated ==
    \A pk \in CallerKeys, header \in Headers :
        /\ getDomainCached(sigCache, pk, header).domain = CalculateDomain(pk, header)
        /\ getDomainCached(proofCache, pk, header).domain = CalculateDomain(pk, header)

(***************************************************************************)
(* The big.Int pool.  A caller holds a proof and its disclosed map; the    *)
(* scalars in them are big.Int objects (cells) that the verification       *)
(* functions receive by pointer.  bigIntPool is the set of the caller's    *)
(* cells that are in the pool of the package (defaultPool.bigIntPool); the *)
(* other objects in the pool are temporaries of the library, and an object *)
(* that sync.Pool makes with New is one more of them.                      *)
(***************************************************************************)
\* an object that belongs to no caller
Temporary == [f |-> "temporary", i |-> 0]

\* the big.Int objects of a proof and a disclosed map that VerifyProof appends
\* to its scalars slice
Cells(v) ==
    {[f |-> "SHat", i |-> 0]}
    \cup {[f |-> "msg", i |-> idx] : idx \in DOMAIN v.disclosedMessages}
    \cup {[f |-> "MHat", i |-> idx] : idx \in DOMAIN v.proof.MHat}

\* what the caller's values are after the object cell was set to val
SetCell(v, cell, val) ==
    IF cell.f = "SHat" THEN [v EXCEPT !.proof.SHat = val]
    ELSE IF cell.f = "msg" THEN [v EXCEPT !.disclosedMessages[cell.i] = val]
    ELSE IF cell.f = "MHat" THEN [v EXCEPT !.proof.MHat[cell.i] = val]
    ELSE v

\* ObjectPool.GetBigInt: sync.Pool.Get returns any object of the pool, or a
\* new one; these are the objects it can return
GetBigInt(pool) == pool \cup {Temporary}

\* ObjectPool.PutBigInt
PutBigInt(pool, cell) == IF cell = Temporary THEN pool ELSE pool \cup {cell}

\* VerifyProof on the caller's objects: after g1b is computed every scalar of
\* the slice is put into the pool, the caller's among them, and the object
\* that GetBigInt then returns is set to 1; one is that object
VerifyProofOnCells(pool, publicKey, v, header, one) ==
    LET err == VerifyProof(publicKey, v.proof, v.disclosedMessages, header)
        reachesPut == /\ ProofPrecheck(publicKey, v.proof, v.disclosedMessages) = "nil"
                      /\ err # "panic"
        pooled == pool \cup Cells(v)
    IN  IF reachesPut
        THEN [err |-> err, pool |-> PutBigInt(pooled \ {one}, one),
              v |-> SetCell(v, one, 1)]
        ELSE [err |-> err, pool |-> pool, v |-> v]

\* VerifyProofWithPooling on the caller's objects: negC is the object that the
\* first GetBigInt returns, set to -c before g1b is computed and put back
\* after it; one is the object that the second GetBigInt returns, set to 1
VerifyProofWithPoolingOnCells(cache, pool, publicKey, v, header, negC, one) ==
    LET pre == ProofPrecheck(publicKey, v.proof, v.disclosedMessages)
        v1  == SetCell(v, negC, Mod(0 - v.proof.C))
        r   == VerifyProofWithPooling(cache, publicKey, v1.proof,
                                      v1.disclosedMessages, header)
    IN  IF pre # "nil" THEN [err |-> pre, cache |-> cache, pool |-> pool, v |-> v]
        ELSE IF r.err = "panic"
        THEN [err |-> r.err, cache |-> r.cache, pool |-> pool, v |-> v]
        ELSE [err |-> r.err, cache |-> r.cache,
              pool |-> PutBigInt(PutBigInt(pool \ {negC}, negC) \ {one}, one),
              v |-> SetCell(v1, one, 1)]

\* BatchVerifyProofs on the caller's objects: one proof goes to VerifyProof,
\* more than one end before any object is put into the pool
BatchVerifyProofsOnCells(pool, publicKeys, vs, headers, one) ==
    IF Len(vs) = 1 /\ Len(publicKeys) = 1 /\ Len(headers) = 1
    THEN LET r == VerifyProofOnCells(pool, publicKeys[1], vs[1], headers[1], one)
         IN  [err |-> r.err, pool |-> r.pool, vs |-> <<r.v>>]
    ELSE [err |-> BatchVerifyProofs(publicKeys,
                      [k \in DOMAIN vs |-> vs[k].proof],
                      [k \in DOMAIN vs |-> vs[k].disclosedMessages],
                      headers, <<>>),
          pool |-> pool, vs |-> vs]

\* the messages of the proofs a caller holds
HeldMessages == [i \in 1 .. MaxL |-> Mod(i)]

\* a caller obtains a proof and a disclosed map, made by CreateProof from a
\* signature or put together from the public key, and keeps them
HoldProofAct ==
    /\ kp # None
    /\ held = None
    /\ \E header \in Headers, disclosedIndices \in DisclosureLists(kp.pk.MessageCount) :
        \E v \in {LET M == [idx \in Range(disclosedIndices) |-> MsgAt(HeldMessages, idx)]
                   IN  [proof |-> ForgeProof(kp.pk, M, header), disclosedMessages |-> M]}
                 \cup {LET r == CreateProof(kp.pk, SignatureFor(HeldMessages, header),
                                            HeldMessages, disclosedIndices, header, rnd)
                       IN  [proof |-> r.proof, disclosedMessages |-> r.disclosedMessages] :
                          rnd \in {tape \in RandomTapes(MaxL + 4) : tape[1] = 1}} :
          held' = [kind |-> "held", pk |-> kp.pk, header |-> header,
                   orig |-> v, cur |-> v, err |-> "none"]
    /\ UNCHANGED <<batch, calls, kr, fnRes, kp, sigRes, verRes, sigCache, proofRes, pverRes, proofCache, bigIntPool>>

VerifyProofHeldAct ==
    /\ held # None
    /\ \E one \in GetBigInt(bigIntPool \cup Cells(held.cur)) :
          LET r == VerifyProofOnCells(bigIntPool, held.pk, held.cur, held.header, one)
          IN  /\ held' = [held EXCEPT !.cur = r.v, !.err = r.err]
              /\ bigIntPool' = r.pool
    /\ UNCHANGED <<batch, calls, kr, fnRes, kp, sigRes, verRes, sigCache, proofRes, pverRes, proofCache>>

VerifyProofWithPoolingHeldAct ==
    /\ held # None
    /\ \E negC \in GetBigInt(bigIntPool), one \in GetBigInt(bigIntPool) :
          LET r == VerifyProofWithPoolingOnCells(proofCache, bigIntPool, held.pk,
                                                 held.cur, held.header, negC, one)
          IN  /\ held' = [held EXCEPT !.cur = r.v, !.err = r.err]
              /\ bigIntPool' = r.pool
              /\ proofCache' = r.cache
    /\ UNCHANGED <<batch, calls, kr, fnRes, kp, sigRes, verRes, sigCache, proofRes, pverRes>>

\* BatchVerifyProofs on the held proof, alone or several times over, with
\* its header
BatchVerifyProofsHeldAct ==
    /\ held # None
    /\ \E n \in 1 .. MaxBatch, one \in GetBigInt(bigIntPool \cup Cells(held.cur)) :
          LET r == BatchVerifyProofsOnCells(bigIntPool, [k \in 1 .. n |-> held.pk],
                                           [k \in 1 .. n |-> held.cur],
                                           [k \in 1 .. n |-> held.header], one)
          IN  /\ held' = [held EXCEPT !.cur = r.vs[1], !.err = r.err]
              /\ bigIntPool' = r.pool
    /\ UNCHANGED <<batch, calls, kr, fnRes, kp, sigRes, verRes, sigCache, proofRes, pverRes, proofCache>>

NextPool ==
    \/ GenerateKeyPairAct
    \/ HoldProofAct
    \/ VerifyProofHeldAct
    \/ VerifyProofWithPoolingHeldAct
    \/ BatchVerifyProofsHeldAct

SpecPool == Init /\ [][NextPool]_vars

\* C12: after any sequence of verification calls on a proof and a disclosed
\* map that a caller holds, every scalar of them has the value it had when
\* the caller obtained them, and VerifyProof returns for them what it returns
\* for the values the caller obtained
C12_VerificationLeavesInputsUnchanged ==
    held.kind = "held"
    => /\ held.cur = held.orig
       /\ VerifyProof(held.pk, held.cur.proof, held.cur.disclosedMessages, held.header)
            = VerifyProof(held.pk, held.orig.proof, held.orig.disclosedMessages,
                          held.header)

(***************************************************************************)
(* The claims about the errors of signing.                                 *)
(***************************************************************************)
\* C13: Sign and SignWithPooling fail only with the wrong-message-count
\* error (the randomness source of the model never fails), and what they
\* return without error is a signature that Verify accepts, also when the
\* e first drawn has x + e = 0 (mod Order)
C13_SignFailsOnlyOnMessageCount ==
    sigRes.kind = "signed"
    => /\ sigRes.err \in {"nil", "ErrInvalidMessageCount"}
       /\ sigRes.err = "nil"
            => Verify(sigRes.pk, sigRes.sig, sigRes.messages, sigRes.header) = "nil"

(***************************************************************************)
(* The claims about keys.                                                  *)
(***************************************************************************)
\* C14: the secret scalar x of every key pair that GenerateKeyPair returns
\* is in the range 1 <= x < Order
C14_SecretScalarInRange ==
    kp.kind = "keypair" => (1 <= kp.sk.X /\ kp.sk.X < Order)

(***************************************************************************)
(* The claims about batch verification.                                    *)
(***************************************************************************)
\* the batch scalars of a batch call over n items that got as far as its
\* weighting are one per item, each in 1 .. Order - 1
WeightedEach(res) ==
    /\ Len(res.batchScalars) = Len(res.items)
    /\ \A k \in DOMAIN res.batchScalars :
          1 <= res.batchScalars[k] /\ res.batchScalars[k] < Order
    /\ res.err # "panic"

\* C15: in every batch verification of two or more items that reaches the
\* weighting, item k is weighted by its own scalar rho_k, drawn for this call
\* with 1 <= rho_k < Order and assigned before it is used
C15_EachItemHasItsScalar ==
    /\ (verRes.kind = "batch" /\ Len(verRes.items) >= 2) => WeightedEach(verRes)
    /\ (/\ pverRes.kind = "batch"
        /\ Len(pverRes.items) >= 2
        /\ pverRes.err # "challenge verification failed") => WeightedEach(pverRes)

\* the header of the only item of a batch, absent when the caller gave no
\* headers list
OnlyHeader(res) == IF res.withHeaders THEN res.items[1].header ELSE <<>>

\* C16: batch verification of exactly one item returns what the single
\* verification returns for that item and its header, the header taken as
\* absent when no headers list is given: BatchVerifySignatures agrees with
\* VerifyWithPooling and BatchVerifyProofs with VerifyProof
C16_BatchOfOneIsSingleVerification ==
    /\ (verRes.kind = "batch" /\ Len(verRes.items) = 1)
         => verRes.err = VerifyWithPooling(sigCache, verRes.items[1].pk,
                                           verRes.items[1].sig,
                                           verRes.items[1].messages,
                                           OnlyHeader(verRes)).err
    /\ (pverRes.kind = "batch" /\ Len(pverRes.items) = 1)
         => pverRes.err = VerifyProof(pverRes.items[1].pk, pverRes.items[1].proof,
                                      pverRes.items[1].disclosedMessages,
                                      OnlyHeader(pverRes))

(***************************************************************************)
(* The callers that pass arguments of any shape: message lists of any      *)
(* length and disclosed index lists with any entries.  A caller looks at   *)
(* one result at a time: it makes its next call after a new key pair.      *)
(***************************************************************************)
\* message lists shorter than, as long as and longer than the key's count
AnyMessages == {[i \in 1 .. n |-> 1] : n \in 0 .. (MaxL + 1)}

\* index lists with entries in and out of range, repeated or not
AnyIndexLists ==
    UNION {[1 .. n -> (0 - 1) .. MaxL] : n \in 0 .. 2}

\* the signatures shown to the verifying functions: one that Sign made for
\* the key's count of messages, and an empty one
ShownSignatures(header) ==
    {NoSig, SignatureFor([i \in 1 .. kp.pk.MessageCount |-> 1], header)}

SignAnyAct ==
    /\ kp # None
    /\ sigRes = None /\ verRes = None /\ proofRes = None
    /\ \E messages \in AnyMessages, header \in Headers, e \in Scalars, s \in Scalars,
          pooled \in BOOLEAN :
          LET r == IF pooled
                   THEN SignWithPooling(sigCache, kp.sk, kp.pk, messages, header, e, s)
                   ELSE Sign(kp.sk, kp.pk, messages, header, e, s)
                        @@ [cache |-> sigCache]
          IN  /\ sigRes' = [kind |-> "signed",
                            by |-> IF pooled THEN "SignWithPooling" ELSE "Sign",
                            pk |-> kp.pk, messages |-> messages, header |-> header,
                            err |-> r.err, sig |-> r.sig]
              /\ sigCache' = r.cache
    /\ verRes' = None
    /\ proofRes' = None
    /\ UNCHANGED <<batch, calls, kr, fnRes, kp, pverRes, proofCache, held, bigIntPool>>

VerifyAnyAct ==
    /\ kp # None
    /\ sigRes = None /\ verRes = None /\ proofRes = None
    /\ \E messages \in AnyMessages, header \in Headers, pooled \in BOOLEAN :
        \E signature \in ShownSignatures(header) :
          LET r == IF pooled
                   THEN VerifyWithPooling(sigCache, kp.pk, signature, messages, header)
                   ELSE [err |-> Verify(kp.pk, signature, messages, header),
                         cache |-> sigCache]
          IN  /\ verRes' = [kind |-> "verified",
                            by |-> IF pooled THEN "VerifyWithPooling" ELSE "Verify",
                            pk |-> kp.pk, sig |-> signature, messages |-> messages,
                            header |-> header, signedBy |-> "any", err |-> r.err]
              /\ sigCache' = r.cache
    /\ sigRes' = None
    /\ proofRes' = None
    /\ UNCHANGED <<batch, calls, kr, fnRes, kp, pverRes, proofCache, held, bigIntPool>>

CreateProofAnyAct ==
    /\ kp # None
    /\ sigRes = None /\ verRes = None /\ proofRes = None
    /\ \E messages \in AnyMessages, header \in Headers,
          disclosedIndices \in AnyIndexLists, pooled \in BOOLEAN,
          rnd \in {tape \in RandomTapes(MaxL + 4) : tape[1] = 1} :
          LET signature == SignatureFor([i \in 1 .. kp.pk.MessageCount |-> 1], header)
              r == IF pooled
                   THEN CreateProofWithPooling(proofCache, kp.pk, signature, messages,
                                               disclosedIndices, header, rnd)
                   ELSE CreateProof(kp.pk, signature, messages, disclosedIndices,
                                    header, rnd) @@ [cache |-> proofCache]
          IN  /\ proofRes' = [kind |-> "proof",
                              by |-> IF pooled THEN "CreateProofWithPooling"
                                     ELSE "CreateProof",
                              messages |-> messages, header |-> header,
                              disclosedIndices |-> disclosedIndices, err |-> r.err,
                              proof |-> r.proof,
                              disclosedMessages |-> r.disclosedMessages]
              /\ proofCache' = r.cache
    /\ sigRes' = None
    /\ verRes' = None
    /\ UNCHANGED <<batch, calls, kr, fnRes, kp, sigCache, pverRes, held, bigIntPool>>

NextInputs ==
    \/ GenerateKeyPairAct
    \/ SignAnyAct
    \/ VerifyAnyAct
    \/ CreateProofAnyAct

SpecInputs == Init /\ [][NextInputs]_vars

(***************************************************************************)
(* The claims about rejected arguments.                                    *)
(***************************************************************************)
\* an index list has an entry outside the L message slots or a repeated one
OutOfRangeOrRepeated(list, L) ==
    \/ \E k \in DOMAIN list : list[k] < 0 \/ list[k] >= L
    \/ \E j \in DOMAIN list, k \in DOMAIN list : j # k /\ list[j] = list[k]

\* C17: CreateProof and CreateProofWithPooling, given as many messages as the
\* key has slots, return the invalid-index error and no proof whenever the
\* disclosed index list has an index outside the slots or the same index
\* more than once
C17_InvalidIndexListRejected ==
    (/\ proofRes.kind = "proof"
     /\ Len(proofRes.messages) = kp.pk.MessageCount
     /\ OutOfRangeOrRepeated(proofRes.disclosedIndices, kp.pk.MessageCount))
    => /\ proofRes.err = "invalid disclosed index"
       /\ proofRes.proof = NoProof

\* C18: Sign, Verify, CreateProof and their pooled variants return
\* ErrInvalidMessageCount, and no signature, no accepting verdict and no
\* proof, whenever the number of messages differs from the public key's
\* message count
C18_WrongMessageCountRejected ==
    /\ (sigRes.kind = "signed" /\ Len(sigRes.messages) # sigRes.pk.MessageCount)
         => (sigRes.err = "ErrInvalidMessageCount" /\ sigRes.sig = NoSig)
    /\ (verRes.kind = "verified" /\ Len(verRes.messages) # verRes.pk.MessageCount)
         => verRes.err = "ErrInvalidMessageCount"
    /\ (proofRes.kind = "proof" /\ Len(proofRes.messages) # kp.pk.MessageCount)
         => (proofRes.err = "ErrInvalidMessageCount" /\ proofRes.proof = NoProof)

\* VerifyWithPooling was given fewer messages than the key has slots, with a
\* signature made for the full count, and returned the message-count error
C18_Witness ==
    /\ verRes.kind = "verified"
    /\ verRes.by = "VerifyWithPooling"
    /\ Len(verRes.messages) < verRes.pk.MessageCount
    /\ verRes.sig # NoSig
    /\ verRes.err = "ErrInvalidMessageCount"

(***************************************************************************)
(* Multi-scalar multiplication: package bbs and package pkg/crypto.        *)
(***************************************************************************)
MaxPoints == 17

\* the point with the coordinates X = 1, Y = 1, Z = 1 that directMSM and
\* batchedMSM of pkg/crypto start from: it is not the point at infinity
\* (Z = 0) and not a point of the curve; so is, in the model, everything the
\* addition formulas make of it
OffCurve == Order

\* G1Jac.AddAssign: an operand with Z = 0 gives the other operand
AddAssign(p, a) ==
    IF p = 0 THEN a
    ELSE IF a = 0 THEN p
    ELSE IF p = OffCurve \/ a = OffCurve THEN OffCurve
    ELSE G1Add(p, a)

\* the loop of directMSM from term i on, result being the running sum
RECURSIVE directMSMLoop(_, _, _, _)
directMSMLoop(points, scalars, i, result) ==
    IF i > Len(points) THEN result
    ELSE IF scalars[i] = 0 \/ points[i] = 0
    THEN directMSMLoop(points, scalars, i + 1, result)
    ELSE directMSMLoop(points, scalars, i + 1,
                       AddAssign(result, G1ScalarMul(points[i], scalars[i])))

directMSM(points, scalars) ==
    [err |-> FALSE, point |-> directMSMLoop(points, scalars, 1, OffCurve)]

\* the loop of batchedMSM: the first term, when it is not skipped, replaces
\* the running sum
RECURSIVE batchedMSMLoop(_, _, _, _)
batchedMSMLoop(points, scalars, i, result) ==
    IF i > Len(points) THEN result
    ELSE IF scalars[i] = 0 \/ points[i] = 0
    THEN batchedMSMLoop(points, scalars, i + 1, result)
    ELSE LET tmp == G1ScalarMul(points[i], scalars[i])
         IN  batchedMSMLoop(points, scalars, i + 1,
                            IF i = 1 THEN tmp ELSE AddAssign(result, tmp))

batchedMSM(points, scalars) ==
    [err |-> FALSE, point |-> batchedMSMLoop(points, scalars, 1, OffCurve)]

directLimit == 16

\* MultiScalarMulG1 of pkg/crypto; fr.Element.SetBytes reduces the scalar
CryptoMultiScalarMulG1(points, scalars) ==
    IF Len(points) # Len(scalars) THEN [err |-> TRUE, point |-> 0]
    ELSE IF Len(points) = 0 THEN [err |-> FALSE, point |-> 0]
    ELSE LET frScalars == [i \in 1 .. Len(scalars) |-> Mod(scalars[i])]
         IN  IF Len(points) > directLimit THEN batchedMSM(points, frScalars)
             ELSE directMSM(points, frScalars)

\* the inputs of the callers: points and scalars in arithmetic progression,
\* and lists whose terms are all trivial but one
MSMInputs ==
    {[points |-> [i \in 1 .. n |-> Mod(a + b * i)],
      scalars |-> [i \in 1 .. n |-> Mod(c + d * i)]] :
        n \in 0 .. MaxPoints, a \in Scalars, b \in Scalars, c \in Scalars, d \in Scalars}
    \cup {[points |-> [i \in 1 .. n |-> IF i % 2 = 0 THEN 0 ELSE 1],
           scalars |-> [i \in 1 .. n |-> IF i = k THEN 1 ELSE 0]] :
             n \in 1 .. MaxPoints, k \in 1 .. MaxPoints}

MultiScalarMulG1Act ==
    /\ fnRes = None
    /\ \E in \in MSMInputs :
          fnRes' = [kind |-> "msm", pkg |-> "bbs", points |-> in.points,
                    scalars |-> in.scalars,
                    result |-> MultiScalarMulG1(in.points, in.scalars)]
    /\ UNCHANGED <<batch, calls, kr, kp, sigRes, verRes, sigCache, proofRes, pverRes, proofCache, held,
                   bigIntPool>>

CryptoMultiScalarMulG1Act ==
    /\ fnRes = None
    /\ \E in \in MSMInputs :
          fnRes' = [kind |-> "msm", pkg |-> "crypto", points |-> in.points,
                    scalars |-> in.scalars,
                    result |-> CryptoMultiScalarMulG1(in.points, in.scalars)]
    /\ UNCHANGED <<batch, calls, kr, kp, sigRes, verRes, sigCache, proofRes, pverRes, proofCache, held,
                   bigIntPool>>

NextMSM ==
    \/ MultiScalarMulG1Act
    \/ CryptoMultiScalarMulG1Act

SpecMSM == Init /\ [][NextMSM]_vars

\* the group sum of scalars[i] * points[i]
GroupSum(points, scalars) ==
    Mod(SumSet(DOMAIN points, [i \in DOMAIN points |-> points[i] * scalars[i]]))

\* C19: each MultiScalarMulG1, given points and scalars of equal length,
\* returns without error the group sum of scalars[i] * points[i]: the
\* identity for an empty input and when every term is trivial, and the full
\* sum for every length
C19_MSMIsGroupSum ==
    fnRes.kind = "msm"
    => /\ ~fnRes.result.err
       /\ fnRes.result.point = GroupSum(fnRes.points, fnRes.scalars)

(***************************************************************************)
(* The encodings of a signature.  A byte string is a sequence of bytes; a  *)
(* G1 point is written as gnark-crypto writes it: G1Affine.Marshal gives   *)
(* the uncompressed form, X then Y, each SizeOfG1AffineCompressed bytes,   *)
(* with the three top bits of the first byte telling the form.             *)
(***************************************************************************)
SizeOfG1AffineCompressed == 48

SizeOfG1AffineUncompressed == 2 * SizeOfG1AffineCompressed

Zeros(n) == [k \in 1 .. n |-> 0]

\* G1Affine.Marshal: the point at infinity is the byte 0x40 and zeros; the
\* coordinates of another point are written big-endian
Marshal(p) ==
    IF p = 0 THEN <<64>> \o Zeros(SizeOfG1AffineUncompressed - 1)
    ELSE Zeros(SizeOfG1AffineCompressed - 1) \o <<p>>
         \o Zeros(SizeOfG1AffineCompressed - 1) \o <<p>>

\* G1Affine.Unmarshal: the form is read from the first byte, and an
\* uncompressed form needs SizeOfG1AffineUncompressed bytes
Unmarshal(buf) ==
    IF Len(buf) < SizeOfG1AffineCompressed
    THEN [err |-> "short buffer", point |-> 0]
    ELSE LET form == buf[1] \div 32
             x == buf[SizeOfG1AffineCompressed]
         IN  IF form \in {0, 2} /\ Len(buf) < SizeOfG1AffineUncompressed
             THEN [err |-> "short buffer", point |-> 0]
             ELSE IF form \in {2, 6} THEN [err |-> "nil", point |-> 0]
             ELSE IF x \notin 1 .. (Order - 1)
                     \/ (form = 0 /\ buf[SizeOfG1AffineUncompressed] # x)
             THEN [err |-> "invalid point", point |-> 0]
             ELSE [err |-> "nil", point |-> x]

SerializeSignature(sig) ==
    LET eBytes == BigIntBytes(sig.E)
        sBytes == BigIntBytes(sig.S)
    IN  Marshal(sig.A) \o <<Len(eBytes)>> \o eBytes \o <<Len(sBytes)>> \o sBytes

\* big.Int.SetBytes: the big-endian value of the bytes
RECURSIVE SetBytes(_)
SetBytes(b) ==
    IF b = <<>> THEN 0
    ELSE SetBytes(SubSeq(b, 1, Len(b) - 1)) * 256 + b[Len(b)]

minSignatureData == 50

DeserializeSignature(data) ==
    LET bad == [err |-> "ErrInvalidSignatureData", sig |-> NoSig]
        a == Unmarshal(SubSeq(data, 1, SizeOfG1AffineCompressed))
        eAt == SizeOfG1AffineCompressed
        eLength == data[eAt + 1]
        sAt == eAt + 1 + eLength
        sLength == data[sAt + 1]
    IN  IF Len(data) < minSignatureData THEN bad
        ELSE IF a.err # "nil" THEN bad
        ELSE IF eAt + 1 + eLength > Len(data) THEN bad
        ELSE IF sAt >= Len(data) THEN bad
        ELSE IF sAt + 1 + sLength > Len(data) THEN bad
        ELSE [err |-> "nil",
              sig |-> [A |-> a.point,
                       E |-> SetBytes(SubSeq(data, eAt + 2, eAt + 1 + eLength)),
                       S |-> SetBytes(SubSeq(data, sAt + 2, sAt + 1 + sLength))]]

\* Signature.MarshalBinary: every field after the 4-byte length of its bytes
MarshalBinary(sig) ==
    LET aBytes == Marshal(sig.A)
        eBytes == BigIntBytes(sig.E)
        sBytes == BigIntBytes(sig.S)
    IN  [err |-> "nil",
         data |-> U32BE(Len(aBytes)) \o aBytes \o U32BE(Len(eBytes)) \o eBytes
                  \o U32BE(Len(sBytes)) \o sBytes]

\* binary.Read of a uint32 from a bytes.Reader at offset i of data
ReadUint32(data, i) ==
    IF i >= Len(data) THEN [err |-> "EOF", value |-> 0, i |-> i]
    ELSE IF i + 4 > Len(data) THEN [err |-> "unexpected EOF", value |-> 0, i |-> Len(data)]
    ELSE [err |-> "nil", value |-> SetBytes(SubSeq(data, i + 1, i + 4)), i |-> i + 4]

\* bytes.Reader.Read into a slice of n bytes at offset i of data: at the end
\* of the data it returns io.EOF, whatever n is; else it copies what there is
ReaderRead(data, i, n) ==
    IF i >= Len(data) THEN [err |-> "EOF", bytes |-> Zeros(n), i |-> i]
    ELSE LET got == IF i + n > Len(data) THEN Len(data) - i ELSE n
         IN  [err |-> "nil",
              bytes |-> SubSeq(data, i + 1, i + got) \o Zeros(n - got),
              i |-> i + got]

\* Signature.UnmarshalBinary into an empty Signature
UnmarshalBinary(data) ==
    LET aLen   == ReadUint32(data, 0)
        aBytes == ReaderRead(data, aLen.i, aLen.value)
        a      == Unmarshal(aBytes.bytes)
        eLen   == ReadUint32(data, aBytes.i)
        eBytes == ReaderRead(data, eLen.i, eLen.value)
        sLen   == ReadUint32(data, eBytes.i)
        sBytes == ReaderRead(data, sLen.i, sLen.value)
        withA  == [NoSig EXCEPT !.A = a.point]
        withE  == [withA EXCEPT !.E = SetBytes(eBytes.bytes)]
    IN  IF aLen.err # "nil" THEN [err |-> aLen.err, sig |-> NoSig]
        ELSE IF aBytes.err # "nil" THEN [err |-> aBytes.err, sig |-> NoSig]
        ELSE IF a.err # "nil" THEN [err |-> a.err, sig |-> NoSig]
        ELSE IF eLen.err # "nil" THEN [err |-> eLen.err, sig |-> withA]
        ELSE IF eBytes.err # "nil" THEN [err |-> eBytes.err, sig |-> withA]
        ELSE IF sLen.err # "nil" THEN [err |-> sLen.err, sig |-> withE]
        ELSE IF sBytes.err # "nil" THEN [err |-> sBytes.err, sig |-> withE]
        ELSE [err |-> "nil", sig |-> [withE EXCEPT !.S = SetBytes(sBytes.bytes)]]

SerializeSignatureAct ==
    /\ fnRes = None
    /\ \E sig \in Signatures :
          fnRes' = [kind |-> "serialized", by |-> "SerializeSignature", sig |-> sig,
                    err |-> "nil", data |-> SerializeSignature(sig)]
    /\ UNCHANGED <<batch, calls, kr, kp, sigRes, verRes, sigCache, proofRes, pverRes, proofCache, held,
                   bigIntPool>>

MarshalBinaryAct ==
    /\ fnRes = None
    /\ \E sig \in Signatures :
          LET r == MarshalBinary(sig)
          IN  fnRes' = [kind |-> "serialized", by |-> "MarshalBinary", sig |-> sig,
                        err |-> r.err, data |-> r.data]
    /\ UNCHANGED <<batch, calls, kr, kp, sigRes, verRes, sigCache, proofRes, pverRes, proofCache, held,
                   bigIntPool>>

DeserializeSignatureAct ==
    /\ fnRes.kind = "serialized"
    /\ fnRes.by = "SerializeSignature"
    /\ LET r == DeserializeSignature(fnRes.data)
       IN  fnRes' = [kind |-> "deserialized", by |-> "DeserializeSignature",
                     sig |-> fnRes.sig, err |-> r.err, out |-> r.sig]
    /\ UNCHANGED <<batch, calls, kr, kp, sigRes, verRes, sigCache, proofRes, pverRes, proofCache, held,
                   bigIntPool>>

UnmarshalBinaryAct ==
    /\ fnRes.kind = "serialized"
    /\ fnRes.by = "MarshalBinary"
    /\ fnRes.err = "nil"
    /\ LET r == UnmarshalBinary(fnRes.data)
       IN  fnRes' = [kind |-> "deserialized", by |-> "UnmarshalBinary",
                     sig |-> fnRes.sig, err |-> r.err, out |-> r.sig]
    /\ UNCHANGED <<batch, calls, kr, kp, sigRes, verRes, sigCache, proofRes, pverRes, proofCache, held,
                   bigIntPool>>

NextCodec ==
    \/ SerializeSignatureAct
    \/ MarshalBinaryAct
    \/ DeserializeSignatureAct
    \/ UnmarshalBinaryAct

SpecCodec == Init /\ [][NextCodec]_vars

\* C20: for every signature (A, e, s) with e and s in [0, Order), e = 0 and
\* s = 0 included, deserializing its serialization succeeds and gives a
\* signature equal to the original, for SerializeSignature with
\* DeserializeSignature and for MarshalBinary with UnmarshalBinary
C20_SignatureRoundTrip ==
    fnRes.kind = "deserialized"
    => (fnRes.err = "nil" /\ fnRes.out = fnRes.sig)

(***************************************************************************)
(* Proof encodings                                                         *)
(***************************************************************************)

\* the orders in which a range over a Go map with key set S can run
KeyOrders(S) == {q \in [1 .. Cardinality(S) -> S] : Range(q) = S}

\* SerializeProof's loop over indices, the keys of MHat in range order
RECURSIVE SerializeMHat(_, _)
SerializeMHat(mHat, indices) ==
    IF indices = <<>> THEN <<>>
    ELSE LET idx == indices[1]
             mHatBytes == BigIntBytes(mHat[idx])
         IN  U32BE(idx) \o <<Len(mHatBytes)>> \o mHatBytes
             \o SerializeMHat(mHat, Tail(indices))

SerializeProof(proof, indices) ==
    LET cBytes == BigIntBytes(proof.C)
        eHatBytes == BigIntBytes(proof.EHat)
        sHatBytes == BigIntBytes(proof.SHat)
    IN  Marshal(proof.APrime) \o Marshal(proof.ABar) \o Marshal(proof.D)
        \o <<Len(cBytes)>> \o cBytes
        \o <<Len(eHatBytes)>> \o eHatBytes
        \o <<Len(sHatBytes)>> \o sHatBytes
        \o <<Cardinality(DOMAIN proof.MHat)>>
        \o SerializeMHat(proof.MHat, indices)

minProofData == 150

\* DeserializeProof's parse of one scalar with a one-byte length at offset
ParseScalar(data, offset) ==
    IF offset >= Len(data) THEN [ok |-> FALSE, value |-> 0, offset |-> offset]
    ELSE LET length == data[offset + 1]
         IN  IF offset + 1 + length > Len(data)
             THEN [ok |-> FALSE, value |-> 0, offset |-> offset + 1]
             ELSE [ok |-> TRUE,
                   value |-> SetBytes(SubSeq(data, offset + 2, offset + 1 + length)),
                   offset |-> offset + 1 + length]

\* DeserializeProof's loop over the mHatCount entries
RECURSIVE ParseMHat(_, _, _, _)
ParseMHat(data, offset, count, mHat) ==
    IF count = 0 THEN [ok |-> TRUE, mHat |-> mHat]
    ELSE IF offset + 4 > Len(data) THEN [ok |-> FALSE, mHat |-> mHat]
    ELSE LET idx == SetBytes(SubSeq(data, offset + 1, offset + 4))
             v == ParseScalar(data, offset + 4)
         IN  IF ~v.ok THEN [ok |-> FALSE, mHat |-> mHat]
             ELSE ParseMHat(data, v.offset, count - 1, (idx :> v.value) @@ mHat)

DeserializeProof(data) ==
    LET bad == [err |-> "ErrInvalidProofData", proof |-> NoProof]
        size == SizeOfG1AffineCompressed
        aPrime == Unmarshal(SubSeq(data, 1, size))
        aBar == Unmarshal(SubSeq(data, size + 1, 2 * size))
        d == Unmarshal(SubSeq(data, 2 * size + 1, 3 * size))
        c == ParseScalar(data, 3 * size)
        eHat == ParseScalar(data, c.offset)
        sHat == ParseScalar(data, eHat.offset)
        mHatCount == data[sHat.offset + 1]
        mHat == ParseMHat(data, sHat.offset + 1, mHatCount, <<>>)
    IN  IF Len(data) < minProofData THEN bad
        ELSE IF aPrime.err # "nil" \/ aBar.err # "nil" \/ d.err # "nil" THEN bad
        ELSE IF ~c.ok THEN bad
        ELSE IF ~eHat.ok THEN bad
        ELSE IF ~sHat.ok THEN bad
        ELSE IF sHat.offset >= Len(data) THEN bad
        ELSE IF ~mHat.ok THEN bad
        ELSE [err |-> "nil",
              proof |-> [APrime |-> aPrime.point, ABar |-> aBar.point, D |-> d.point,
                         C |-> c.value, EHat |-> eHat.value, SHat |-> sHat.value,
                         MHat |-> mHat.mHat]]

\* ProofOfKnowledge.MarshalBinary's loop over MHat in range order
RECURSIVE MarshalMHat(_, _)
MarshalMHat(mHat, indices) ==
    IF indices = <<>> THEN <<>>
    ELSE LET mHatBytes == BigIntBytes(mHat[indices[1]])
         IN  U32BE(indices[1]) \o U32BE(Len(mHatBytes)) \o mHatBytes
             \o MarshalMHat(mHat, Tail(indices))

\* a field after the 4-byte length of its bytes
LengthPrefixed(bytes) == U32BE(Len(bytes)) \o bytes

ProofMarshalBinary(p, indices) ==
    [err |-> "nil",
     data |-> LengthPrefixed(Marshal(p.APrime)) \o LengthPrefixed(Marshal(p.ABar))
              \o LengthPrefixed(Marshal(p.D)) \o LengthPrefixed(BigIntBytes(p.C))
              \o LengthPrefixed(BigIntBytes(p.EHat)) \o LengthPrefixed(BigIntBytes(p.SHat))
              \o U32BE(Cardinality(DOMAIN p.MHat)) \o MarshalMHat(p.MHat, indices)]

\* binary.Read of a length and buf.Read of that many bytes, from offset i
ReadLengthPrefixed(data, i) ==
    LET length == ReadUint32(data, i)
        bytes == ReaderRead(data, length.i, length.value)
    IN  IF length.err # "nil" THEN [err |-> length.err, bytes |-> <<>>, i |-> length.i]
        ELSE bytes

\* ProofOfKnowledge.UnmarshalBinary's loop over the mHatCount entries
RECURSIVE ReadMHat(_, _, _, _)
ReadMHat(data, i, count, mHat) ==
    IF count = 0 THEN [err |-> "nil", mHat |-> mHat]
    ELSE LET idx == ReadUint32(data, i)
             mHatBytes == ReadLengthPrefixed(data, idx.i)
         IN  IF idx.err # "nil" THEN [err |-> idx.err, mHat |-> mHat]
             ELSE IF mHatBytes.err # "nil" THEN [err |-> mHatBytes.err, mHat |-> mHat]
             ELSE ReadMHat(data, mHatBytes.i, count - 1,
                           (idx.value :> SetBytes(mHatBytes.bytes)) @@ mHat)

\* ProofOfKnowledge.UnmarshalBinary into p, the fields read before an error
\* staying assigned
ProofUnmarshalBinary(p, data) ==
    LET aPrimeBytes == ReadLengthPrefixed(data, 0)
        aPrime == Unmarshal(aPrimeBytes.bytes)
        aBarBytes == ReadLengthPrefixed(data, aPrimeBytes.i)
        aBar == Unmarshal(aBarBytes.bytes)
        dBytes == ReadLengthPrefixed(data, aBarBytes.i)
        d == Unmarshal(dBytes.bytes)
        cBytes == ReadLengthPrefixed(data, dBytes.i)
        eHatBytes == ReadLengthPrefixed(data, cBytes.i)
        sHatBytes == ReadLengthPrefixed(data, eHatBytes.i)
        mHatCount == ReadUint32(data, sHatBytes.i)
        mHat == ReadMHat(data, mHatCount.i, mHatCount.value, <<>>)
        p1 == [p EXCEPT !.APrime = aPrime.point]
        p2 == [p1 EXCEPT !.ABar = aBar.point]
        p3 == [p2 EXCEPT !.D = d.point]
        p4 == [p3 EXCEPT !.C = SetBytes(cBytes.bytes)]
        p5 == [p4 EXCEPT !.EHat = SetBytes(eHatBytes.bytes)]
        p6 == [p5 EXCEPT !.SHat = SetBytes(sHatBytes.bytes)]
    IN  IF aPrimeBytes.err # "nil" THEN [err |-> aPrimeBytes.err, p |-> p]
        ELSE IF aPrime.err # "nil" THEN [err |-> aPrime.err, p |-> p]
        ELSE IF aBarBytes.err # "nil" THEN [err |-> aBarBytes.err, p |-> p1]
        ELSE IF aBar.err # "nil" THEN [err |-> aBar.err, p |-> p1]
        ELSE IF dBytes.err # "nil" THEN [err |-> dBytes.err, p |-> p2]
        ELSE IF d.err # "nil" THEN [err |-> d.err, p |-> p2]
        ELSE IF cBytes.err # "nil" THEN [err |-> cBytes.err, p |-> p3]
        ELSE IF eHatBytes.err # "nil" THEN [err |-> eHatBytes.err, p |-> p4]
        ELSE IF sHatBytes.err # "nil" THEN [err |-> sHatBytes.err, p |-> p5]
        ELSE IF mHatCount.err # "nil" THEN [err |-> mHatCount.err, p |-> p6]
        ELSE [err |-> mHat.err, p |-> [p6 EXCEPT !.MHat = mHat.mHat]]

\* the proofs handed to the encoders: hidden sets of every size up to MaxL,
\* the empty one included, and every response scalar, 0 included
CodecProofs == [APrime : Scalars, ABar : Scalars, D : Scalars, C : Scalars, EHat : Scalars, SHat : Scalars, MHat : UNION {[S -> Scalars] : S \in SUBSET (0 .. (MaxL - 1))}]

SerializeProofAct ==
    /\ fnRes = None
    /\ \E proof \in CodecProofs : \E indices \in KeyOrders(DOMAIN proof.MHat) :
          fnRes' = [kind |-> "proofSerialized", by |-> "SerializeProof", proof |-> proof,
                    err |-> "nil", data |-> SerializeProof(proof, indices)]
    /\ UNCHANGED <<batch, calls, kr, kp, sigRes, verRes, sigCache, proofRes, pverRes, proofCache, held,
                   bigIntPool>>

ProofMarshalBinaryAct ==
    /\ fnRes = None
    /\ \E proof \in CodecProofs : \E indices \in KeyOrders(DOMAIN proof.MHat) :
          LET r == ProofMarshalBinary(proof, indices)
          IN  fnRes' = [kind |-> "proofSerialized", by |-> "MarshalBinary",
                        proof |-> proof, err |-> r.err, data |-> r.data]
    /\ UNCHANGED <<batch, calls, kr, kp, sigRes, verRes, sigCache, proofRes, pverRes, proofCache, held,
                   bigIntPool>>

DeserializeProofAct ==
    /\ fnRes.kind = "proofSerialized"
    /\ fnRes.by = "SerializeProof"
    /\ LET r == DeserializeProof(fnRes.data)
       IN  fnRes' = [kind |-> "proofDeserialized", by |-> "DeserializeProof",
                     proof |-> fnRes.proof, err |-> r.err, out |-> r.proof]
    /\ UNCHANGED <<batch, calls, kr, kp, sigRes, verRes, sigCache, proofRes, pverRes, proofCache, held,
                   bigIntPool>>

ProofUnmarshalBinaryAct ==
    /\ fnRes.kind = "proofSerialized"
    /\ fnRes.by = "MarshalBinary"
    /\ fnRes.err = "nil"
    /\ LET r == ProofUnmarshalBinary(NoProof, fnRes.data)
       IN  fnRes' = [kind |-> "proofDeserialized", by |-> "UnmarshalBinary",
                     proof |-> fnRes.proof, err |-> r.err, out |-> r.p]
    /\ UNCHANGED <<batch, calls, kr, kp, sigRes, verRes, sigCache, proofRes, pverRes, proofCache, held,
                   bigIntPool>>

NextProofCodec ==
    \/ SerializeProofAct
    \/ ProofMarshalBinaryAct
    \/ DeserializeProofAct
    \/ ProofUnmarshalBinaryAct

SpecProofCodec == Init /\ [][NextProofCodec]_vars

\* C21: for every proof, one with an empty hidden set and ones with response
\* scalars equal to 0 included, deserializing its serialization succeeds and
\* gives a proof equal to the original (the same A', A-bar, D, c, e-hat,
\* s-hat and index-to-m-hat map), for SerializeProof with DeserializeProof
\* and for ProofOfKnowledge.MarshalBinary with UnmarshalBinary
C21_ProofRoundTrip ==
    fnRes.kind = "proofDeserialized"
    => (fnRes.err = "nil" /\ fnRes.out = fnRes.proof)

(***************************************************************************)
(* The transcript of the proof challenge                                   *)
(***************************************************************************)

\* the bytes ComputeProofChallenge hands to SHA-256
ChallengeBuff(APrime, ABar, D, disclosedIndices, disclosedMessages) ==
    LET sortedIndices == SortInts(Copy(MakeInts(0, Len(disclosedIndices)),
                                       disclosedIndices))
        entry(idx) == LET msgBytes == BigIntBytes(disclosedMessages[idx])
                      IN  U32BE(idx) \o U32BE(Len(msgBytes)) \o msgBytes
    IN  MarshalG1(APrime) \o MarshalG1(ABar) \o MarshalG1(D)
        \o Concat([k \in 1 .. Len(sortedIndices) |-> entry(sortedIndices[k])])

\* the index lists of a caller: every order of every set of message slots
CallerIndexLists == UNION {KeyOrders(S) : S \in SUBSET (0 .. (MaxL - 1))}

ComputeProofChallengeAct ==
    /\ fnRes = None
    /\ \E APrime \in Scalars, ABar \in Scalars, D \in Scalars :
       \E disclosedIndices \in CallerIndexLists :
       \E disclosedMessages \in [Range(disclosedIndices) -> Scalars] :
          fnRes' = [kind |-> "challenge",
                    APrime |-> APrime, ABar |-> ABar, D |-> D,
                    disclosedIndices |-> disclosedIndices,
                    disclosedMessages |-> disclosedMessages,
                    buff |-> ChallengeBuff(APrime, ABar, D, disclosedIndices,
                                           disclosedMessages),
                    challenge |-> ComputeProofChallenge(APrime, ABar, D, disclosedIndices,
                                                        disclosedMessages)]
    /\ UNCHANGED <<batch, calls, kr, kp, sigRes, verRes, sigCache, proofRes, pverRes, proofCache, held,
                   bigIntPool>>

NextChallenge == ComputeProofChallengeAct

SpecChallenge == Init /\ [][NextChallenge]_vars

\* the transcript in which every disclosed index, in ascending order, is
\* followed by the length and the bytes of its message
SortedTranscript(res) ==
    LET ascending == KeysAscending(Range(res.disclosedIndices))
        item(idx) == LET msgBytes == BigIntBytes(res.disclosedMessages[idx])
                     IN  U32BE(idx) \o U32BE(Len(msgBytes)) \o msgBytes
    IN  MarshalG1(res.APrime) \o MarshalG1(res.ABar) \o MarshalG1(res.D)
        \o Concat([k \in 1 .. Len(ascending) |-> item(ascending[k])])

\* C22: the bytes ComputeProofChallenge hashes are A', A-bar and D followed,
\* for each disclosed index in ascending order, by the 4-byte big-endian
\* index, the 4-byte big-endian length of its disclosed message and the
\* message bytes, and the challenge is the digest of these bytes
C22_ChallengeTranscriptIsSorted ==
    fnRes.kind = "challenge"
    => /\ fnRes.buff = SortedTranscript(fnRes)
       /\ fnRes.challenge = Mod(SHA256(fnRes.buff))

(***************************************************************************)
(* The goroutines of BatchVerifyProofs.  batch is one call in progress:    *)
(* main is the position of the caller, pc[k] the position of the goroutine *)
(* started for proof k, sem the number of elements in the semaphore        *)
(* channel, errChan the content of the error channel (its capacity is the  *)
(* number of proofs) and wg the counter of the wait group.                 *)
(***************************************************************************)
MaxWorkers == 5

concurrencyLimit == 4

\* the key of the proofs that are batched
BatchKey == GenerateKeyPair(MaxL, 1).pk

\* a proof with the challenge of its transcript, and the same proof with
\* another c
BatchItem(wrong) ==
    LET pr == ForgeProof(BatchKey, (0 :> 1), <<>>)
    IN  [pk |-> BatchKey, disclosedMessages |-> (0 :> 1), header |-> <<>>,
         proof |-> IF wrong THEN [pr EXCEPT !.C = Mod(pr.C + 1)] ELSE pr]

\* the closure's comparison c.Cmp(p.C) != 0
ChallengeDiffers(item) ==
    ComputeProofChallenge(item.proof.APrime, item.proof.ABar, item.proof.D,
                          SortInts(KeysAscending(DOMAIN item.disclosedMessages)),
                          item.disclosedMessages) # item.proof.C

\* a wait that returns at once
WaitGroupIgnored(wg) == TRUE

\* wg.Wait returns when the counter is zero
WaitGroupZero(wg) == wg = 0

\* the call up to the loop that starts the goroutines
BatchStartAct ==
    /\ batch = None
    /\ \E n \in 2 .. MaxWorkers, failing \in SUBSET (1 .. MaxWorkers) :
          /\ failing \subseteq 1 .. n
          /\ batch' = [kind |-> "batch",
                       items |-> [k \in 1 .. n |-> BatchItem(k \in failing)],
                       pc |-> [k \in 1 .. n |-> "unborn"],
                       i |-> 0, sem |-> 0, errChan |-> <<>>, wg |-> 0,
                       main |-> "loop", finalStage |-> FALSE, err |-> "none"]
    /\ UNCHANGED <<calls, kr, fnRes, held, bigIntPool, kp, sigRes, verRes, sigCache,
                   proofRes, pverRes, proofCache>>

\* one iteration of the loop: wg.Add(1) and the go statement
SpawnAct ==
    /\ batch.kind = "batch"
    /\ batch.main = "loop"
    /\ batch' = [batch EXCEPT !.wg = @ + 1, !.pc[batch.i + 1] = "spawned",
                              !.i = @ + 1,
                              !.main = IF batch.i + 1 = Len(batch.items)
                                       THEN "wait" ELSE "loop"]
    /\ UNCHANGED <<calls, kr, fnRes, held, bigIntPool, kp, sigRes, verRes, sigCache,
                   proofRes, pverRes, proofCache>>

\* sem <- struct{}{}: blocks while the semaphore holds concurrencyLimit
AcquireAct ==
    /\ batch.kind = "batch"
    /\ \E k \in DOMAIN batch.pc :
          /\ batch.pc[k] = "spawned"
          /\ batch.sem < concurrencyLimit
          /\ batch' = [batch EXCEPT !.sem = @ + 1, !.pc[k] = "check"]
    /\ UNCHANGED <<calls, kr, fnRes, held, bigIntPool, kp, sigRes, verRes, sigCache,
                   proofRes, pverRes, proofCache>>

\* the challenge is recomputed and compared with the proof's c
CheckAct ==
    /\ batch.kind = "batch"
    /\ \E k \in DOMAIN batch.pc :
          /\ batch.pc[k] = "check"
          /\ batch' = [batch EXCEPT !.pc[k] = IF ChallengeDiffers(batch.items[k])
                                              THEN "send" ELSE "defer"]
    /\ UNCHANGED <<calls, kr, fnRes, held, bigIntPool, kp, sigRes, verRes, sigCache,
                   proofRes, pverRes, proofCache>>

\* errChan <- err: blocks while the channel is full
SendAct ==
    /\ batch.kind = "batch"
    /\ \E k \in DOMAIN batch.pc :
          /\ batch.pc[k] = "send"
          /\ Len(batch.errChan) < Len(batch.items)
          /\ batch' = [batch EXCEPT !.errChan = Append(@, k - 1), !.pc[k] = "defer"]
    /\ UNCHANGED <<calls, kr, fnRes, held, bigIntPool, kp, sigRes, verRes, sigCache,
                   proofRes, pverRes, proofCache>>

\* the deferred function: <-sem and wg.Done()
DeferredAct ==
    /\ batch.kind = "batch"
    /\ \E k \in DOMAIN batch.pc :
          /\ batch.pc[k] = "defer"
          /\ batch.sem > 0
          /\ batch' = [batch EXCEPT !.sem = @ - 1, !.wg = @ - 1, !.pc[k] = "done"]
    /\ UNCHANGED <<calls, kr, fnRes, held, bigIntPool, kp, sigRes, verRes, sigCache,
                   proofRes, pverRes, proofCache>>

\* wg.Wait()
WaitAct ==
    /\ batch.kind = "batch"
    /\ batch.main = "wait"
    /\ WaitGroupZero(batch.wg)
    /\ batch' = [batch EXCEPT !.main = "select"]
    /\ UNCHANGED <<calls, kr, fnRes, held, bigIntPool, kp, sigRes, verRes, sigCache,
                   proofRes, pverRes, proofCache>>

\* the select on errChan with a default case
SelectAct ==
    /\ batch.kind = "batch"
    /\ batch.main = "select"
    /\ batch' = IF batch.errChan # <<>>
                THEN [batch EXCEPT !.errChan = Tail(@), !.main = "returned",
                                   !.err = "challenge verification failed"]
                ELSE [batch EXCEPT !.main = "final"]
    /\ UNCHANGED <<calls, kr, fnRes, held, bigIntPool, kp, sigRes, verRes, sigCache,
                   proofRes, pverRes, proofCache>>

\* the rest of the call: the batch scalars, the points of every proof and the
\* product of pairings
FinalAct ==
    /\ batch.kind = "batch"
    /\ batch.main = "final"
    /\ \E rho \in [1 .. Len(GetScalarSlice(Len(batch.items))) -> Scalars] :
          LET n == Len(batch.items)
              loop == BatchProofLoop(
                          [publicKeys |-> [k \in 1 .. n |-> batch.items[k].pk],
                           proofs |-> [k \in 1 .. n |-> batch.items[k].proof],
                           disclosedMessagesList |->
                               [k \in 1 .. n |-> batch.items[k].disclosedMessages],
                           headers |-> [k \in 1 .. n |-> batch.items[k].header],
                           batchScalars |-> rho],
                          0, <<>>, <<>>)
              pairingResult == Pair(loop.g1Points, loop.g2Points)
              err == IF loop.err # "nil" THEN loop.err
                     ELSE IF pairingResult.err THEN "ErrPairingFailed"
                     ELSE IF ~IsOne(pairingResult) THEN "ErrInvalidSignature"
                     ELSE "nil"
          IN  batch' = [batch EXCEPT !.finalStage = TRUE, !.err = err,
                                     !.main = IF err = "panic" THEN "panicked"
                                              ELSE "returned"]
    /\ UNCHANGED <<calls, kr, fnRes, held, bigIntPool, kp, sigRes, verRes, sigCache,
                   proofRes, pverRes, proofCache>>

NextBatch ==
    \/ BatchStartAct
    \/ SpawnAct
    \/ AcquireAct
    \/ CheckAct
    \/ SendAct
    \/ DeferredAct
    \/ WaitAct
    \/ SelectAct
    \/ FinalAct

SpecBatch == Init /\ [][NextBatch]_vars

\* every goroutine that can take a step takes it, and so does the caller
SpecBatchFair == SpecBatch /\ WF_vars(SpawnAct) /\ WF_vars(AcquireAct) /\ WF_vars(CheckAct) /\ WF_vars(SendAct) /\ WF_vars(DeferredAct) /\ WF_vars(WaitAct) /\ WF_vars(SelectAct) /\ WF_vars(FinalAct)

\* C23: in BatchVerifyProofs with two or more proofs the part of the call
\* that ends in the product of pairings is entered only after every
\* goroutine's challenge check has completed, and it is not entered, an error
\* being returned instead, when the recomputed challenge of a proof differs
\* from the proof's c, in every interleaving of the goroutines
C23_PairingAfterAllChallengeChecks ==
    batch.kind = "batch"
    => /\ (batch.main = "final" \/ batch.finalStage)
          => /\ \A k \in DOMAIN batch.pc : batch.pc[k] = "done"
             /\ \A k \in DOMAIN batch.items : ~ChallengeDiffers(batch.items[k])
       /\ (batch.main \in {"returned", "panicked"}
           /\ \E k \in DOMAIN batch.items : ChallengeDiffers(batch.items[k]))
          => /\ ~batch.finalStage
             /\ batch.err = "challenge verification failed"

C23_Witness ==
    /\ batch.kind = "batch"
    /\ Len(batch.items) >= 2
    /\ batch.finalStage
    /\ \A k \in DOMAIN batch.pc : batch.pc[k] = "done"

\* C24: every call to BatchVerifyProofs returns in the end, whatever the
\* number of proofs and the number of them whose challenge check fails: no
\* goroutine stays blocked on the semaphore or the error channel and the
\* caller leaves the wait-group barrier
C24_BatchCallReturns ==
    (batch.kind = "batch") ~> (batch.kind = "batch" /\ batch.main = "returned")

(***************************************************************************)
(* Concurrent calls of VerifyProof.  calls.of[g] is the call goroutine g   *)
(* runs on the proof and the disclosed map in held; the calls share the    *)
(* pool of the package.  negC is the value of the big.Int that the call    *)
(* allocates for -c, an object of the call that it puts into the pool.     *)
(***************************************************************************)
Goroutines == 1 .. 2

\* the big.Int that the call of goroutine g allocates for -c
NegCCell(g) == [f |-> "negC", i |-> g]

\* VerifyProof's g1b, computed from the scalars slice as it is when
\* MultiScalarMulG1 reads it; negC is the value of the slice's last object
ProofG1b(publicKey, proof, disclosedMessages, domain, negC) ==
    LET dIdx == KeysAscending(DOMAIN disclosedMessages)
        hIdx == KeysAscending(DOMAIN proof.MHat)
        points == <<publicKey.G1, HAt(publicKey, 0), HAt(publicKey, 1)>>
                  \o [k \in 1 .. Len(dIdx) |-> HAt(publicKey, dIdx[k] + 2)]
                  \o [k \in 1 .. Len(hIdx) |-> HAt(publicKey, hIdx[k] + 2)]
                  \o <<proof.D>>
        scalars == <<1, proof.SHat, domain>>
                   \o [k \in 1 .. Len(dIdx) |-> disclosedMessages[dIdx[k]]]
                   \o [k \in 1 .. Len(hIdx) |-> proof.MHat[hIdx[k]]]
                   \o <<negC>>
    IN  MultiScalarMulG1(points, scalars)

\* VerifyProof from T to the end, with the g1b computed before
ProofPairing(publicKey, proof, g1b) ==
    LET T == MultiScalarMulG1(<<proof.ABar, proof.D>>, <<proof.C, 1>>)
        negG2 == G2Neg(publicKey.G2)
        pairingResult == Pair(<<proof.APrime, g1b, T.point>>,
                              <<publicKey.W, negG2, publicKey.G2>>)
    IN  IF T.err THEN "failed multi-scalar multiplication"
        ELSE IF pairingResult.err THEN "ErrPairingFailed"
        ELSE IF ~IsOne(pairingResult) THEN "ErrInvalidSignature"
        ELSE "nil"

\* a proof and a disclosed map that the goroutines are given, with the key
\* and the header they are verified under
ShareProofAct ==
    /\ held = None
    /\ calls = None
    /\ \E header \in Headers, disclosedIndices \in DisclosureLists(MaxL) :
          LET M == [idx \in Range(disclosedIndices) |-> MsgAt(HeldMessages, idx)]
              v == [proof |-> ForgeProof(BatchKey, M, header), disclosedMessages |-> M]
          IN  /\ held' = [kind |-> "held", pk |-> BatchKey, header |-> header,
                          orig |-> v, cur |-> v, err |-> "none"]
              /\ calls' = [kind |-> "calls",
                            of |-> [g \in Goroutines |->
                                      [pc |-> "idle", negC |-> 0, g1b |-> 0,
                                       alone |-> "none", err |-> "none"]]]
    /\ UNCHANGED <<batch, kr, fnRes, bigIntPool, kp, sigRes, verRes, sigCache, proofRes,
                   pverRes, proofCache>>

\* VerifyProof up to PutBigInt(negC): the checks, the slices of points and of
\* scalars, and -c, which is put into the pool while the slice refers to it
VerifyProofBeginAct ==
    /\ calls.kind = "calls"
    /\ \E g \in Goroutines :
          /\ calls.of[g].pc = "idle"
          /\ LET proof == held.cur.proof
                 disclosedMessages == held.cur.disclosedMessages
                 pre == ProofPrecheck(held.pk, proof, disclosedMessages)
                 alone == VerifyProof(held.pk, proof, disclosedMessages, held.header)
             IN  IF pre # "nil" \/ alone = "panic"
                 THEN /\ calls' = [calls EXCEPT !.of[g].pc = "done", !.of[g].alone = alone,
                                                !.of[g].err = IF pre # "nil" THEN pre
                                                           ELSE "panic"]
                      /\ UNCHANGED bigIntPool
                 ELSE /\ calls' = [calls EXCEPT !.of[g].pc = "msm", !.of[g].alone = alone,
                                                !.of[g].negC = Mod(0 - proof.C)]
                      /\ bigIntPool' = PutBigInt(bigIntPool, NegCCell(g))
    /\ UNCHANGED <<batch, kr, fnRes, held, kp, sigRes, verRes, sigCache, proofRes,
                   pverRes, proofCache>>

\* VerifyProof from MultiScalarMulG1 to the loop that puts every scalar of
\* the slice into the pool
VerifyProofMSMAct ==
    /\ calls.kind = "calls"
    /\ \E g \in Goroutines :
          /\ calls.of[g].pc = "msm"
          /\ LET g1b == ProofG1b(held.pk, held.cur.proof, held.cur.disclosedMessages,
                                 CalculateDomain(held.pk, held.header), calls.of[g].negC)
             IN  calls' = IF g1b.err
                          THEN [calls EXCEPT !.of[g].pc = "done",
                                             !.of[g].err = "failed multi-scalar multiplication"]
                          ELSE [calls EXCEPT !.of[g].pc = "T", !.of[g].g1b = g1b.point]
          /\ bigIntPool' = PutBigInt(bigIntPool \cup Cells(held.cur), NegCCell(g))
    /\ UNCHANGED <<batch, kr, fnRes, held, kp, sigRes, verRes, sigCache, proofRes,
                   pverRes, proofCache>>

\* VerifyProof from GetBigInt().SetInt64(1) to the end: one is the object
\* that the pool hands out
VerifyProofPairingAct ==
    /\ calls.kind = "calls"
    /\ \E g \in Goroutines :
          /\ calls.of[g].pc = "T"
          /\ \E one \in GetBigInt(bigIntPool) :
                LET cur == SetCell(held.cur, one, 1)
                    set == IF one.f = "negC" THEN [calls EXCEPT !.of[one.i].negC = 1]
                           ELSE calls
                IN  /\ held' = [held EXCEPT !.cur = cur]
                    /\ calls' = [set EXCEPT !.of[g].pc = "done",
                                            !.of[g].err = ProofPairing(held.pk, cur.proof,
                                                                    calls.of[g].g1b)]
                    /\ bigIntPool' = PutBigInt(bigIntPool \ {one}, one)
    /\ UNCHANGED <<batch, kr, fnRes, kp, sigRes, verRes, sigCache, proofRes, pverRes,
                   proofCache>>

NextConcurrent ==
    \/ ShareProofAct
    \/ VerifyProofBeginAct
    \/ VerifyProofMSMAct
    \/ VerifyProofPairingAct

SpecConcurrent == Init /\ [][NextConcurrent]_vars

\* C25: when goroutines run verification calls at the same time on the
\* shared pool, every call returns what it returns when it runs alone on the
\* values it was given: no call overwrites a pooled scalar that a call in
\* progress still uses
C25_ConcurrentCallsAsAlone ==
    calls.kind = "calls"
    => \A g \in Goroutines : calls.of[g].pc = "done" => calls.of[g].err = calls.of[g].alone

(***************************************************************************)
(* ConstantTimeRandom.  A candidate is kept as the bytes that were read,   *)
(* big-endian, as the code builds it with SetBytes.                        *)
(***************************************************************************)
MaxReads == 2

extraBits == 64

\* big.Int.BitLen of a number
RECURSIVE BitLen(_)
BitLen(n) == IF n = 0 THEN 0 ELSE 1 + BitLen(n \div 2)

\* big.Int.BitLen of the value of big-endian bytes
RECURSIVE BitLenOfBytes(_)
BitLenOfBytes(b) ==
    IF b = <<>> THEN 0
    ELSE IF b[1] = 0 THEN BitLenOfBytes(Tail(b))
    ELSE 8 * (Len(b) - 1) + BitLen(b[1])

\* result.Cmp(max) < 0 for the value of big-endian bytes and a max below 2^24
CmpLess(b, max) ==
    /\ \A k \in 1 .. (Len(b) - 3) : b[k] = 0
    /\ SetBytes(SubSeq(b, Len(b) - 2, Len(b))) < max

\* the buffer length and the mask of the first byte
ByteLen(max) == (BitLen(max) + extraBits + 7) \div 8

Mask(max) == LET bits == BitLen(max) % 8 IN IF bits > 0 THEN 2 ^ bits - 1 ELSE 255

\* one pass of the loop on the bytes the source returned
Candidate(max, read) == [k \in 1 .. Len(read) |-> IF k = 1 THEN read[k] % (Mask(max) + 1) ELSE read[k]]

\* the values of max, and the bytes a source returns
RandomMaxima == {1, Order, 200}

SourceBytes == {1, 2, 255}

\* a read of n bytes: a byte of SourceBytes at some of the first two and the
\* last two places, zeros elsewhere
SourceReads(n) == {[k \in 1 .. n |-> IF k \in S THEN v ELSE 0] : S \in SUBSET {1, 2, n - 1, n}, v \in SourceBytes}

ConstantTimeRandomAct ==
    /\ fnRes = None
    /\ \E max \in RandomMaxima :
          fnRes' = [kind |-> "random", max |-> max, reads |-> 0, b |-> <<>>,
                    pc |-> "loop", sourceFailed |-> FALSE, err |-> "none", result |-> 0]
    /\ UNCHANGED <<batch, calls, kr, kp, sigRes, verRes, sigCache, proofRes, pverRes,
                   proofCache, held, bigIntPool>>

\* one iteration: rng.Read, the mask, SetBytes and the comparison with max
RandomLoopAct ==
    /\ fnRes.kind = "random"
    /\ fnRes.pc = "loop"
    /\ fnRes.reads < MaxReads
    /\ \/ fnRes' = [fnRes EXCEPT !.pc = "returned", !.sourceFailed = TRUE,
                                 !.err = "failed to generate random bytes"]
       \/ \E read \in SourceReads(ByteLen(fnRes.max)) :
             LET b == Candidate(fnRes.max, read)
             IN  fnRes' = IF CmpLess(b, fnRes.max)
                          THEN [fnRes EXCEPT !.reads = @ + 1, !.b = b, !.pc = "returned",
                                             !.err = "nil", !.result = SetBytes(SubSeq(b, Len(b) - 2, Len(b)))]
                          ELSE [fnRes EXCEPT !.reads = @ + 1, !.b = b]
    /\ UNCHANGED <<batch, calls, kr, kp, sigRes, verRes, sigCache, proofRes, pverRes,
                   proofCache, held, bigIntPool>>

NextRandom ==
    \/ ConstantTimeRandomAct
    \/ RandomLoopAct

SpecRandom == Init /\ [][NextRandom]_vars

\* C26: every candidate that ConstantTimeRandom draws has at most
\* max.BitLen() bits, a value it returns is in [0, max-1], and it returns an
\* error only when the randomness source reports one
C26_CandidateWithinBitLen ==
    fnRes.kind = "random"
    => /\ fnRes.reads > 0 => BitLenOfBytes(fnRes.b) <= BitLen(fnRes.max)
       /\ (fnRes.pc = "returned" /\ fnRes.err = "nil") => fnRes.result \in 0 .. (fnRes.max - 1)
       /\ (fnRes.pc = "returned" /\ fnRes.err # "nil") => fnRes.sourceFailed

(***************************************************************************)
(* Proofs with any set of hidden indices                                   *)
(***************************************************************************)

\* the proofs a verifier can be handed: one that fits the disclosed map, with
\* its responses m-hat replaced by responses for any set of indices
AnyHiddenProofs(disclosedMessages, header) ==
    {[ForgeProof(BatchKey, disclosedMessages, header) EXCEPT !.MHat = [idx \in S |-> v]] : S \in SUBSET ((0 - 3) .. MaxL), v \in 0 .. 1}

VerifyProofAnyAct ==
    /\ pverRes = None
    /\ \E header \in Headers, disclosedIndices \in DisclosureLists(MaxL) :
          LET M == [idx \in Range(disclosedIndices) |-> MsgAt(HeldMessages, idx)]
          IN  \E proof \in AnyHiddenProofs(M, header) :
                 pverRes' = [kind |-> "hidden", by |-> "VerifyProof", pk |-> BatchKey,
                             proof |-> proof, disclosedMessages |-> M, header |-> header,
                             err |-> VerifyProof(BatchKey, proof, M, header)]
    /\ UNCHANGED <<batch, calls, kr, fnRes, held, bigIntPool, kp, sigRes, verRes, sigCache,
                   proofRes, proofCache>>

VerifyProofWithPoolingAnyAct ==
    /\ pverRes = None
    /\ \E header \in Headers, disclosedIndices \in DisclosureLists(MaxL) :
          LET M == [idx \in Range(disclosedIndices) |-> MsgAt(HeldMessages, idx)]
          IN  \E proof \in AnyHiddenProofs(M, header) :
                 LET r == VerifyProofWithPooling(proofCache, BatchKey, proof, M, header)
                 IN  /\ pverRes' = [kind |-> "hidden", by |-> "VerifyProofWithPooling",
                                    pk |-> BatchKey, proof |-> proof,
                                    disclosedMessages |-> M, header |-> header,
                                    err |-> r.err]
                     /\ proofCache' = r.cache
    /\ UNCHANGED <<batch, calls, kr, fnRes, held, bigIntPool, kp, sigRes, verRes, sigCache,
                   proofRes>>

NextHidden ==
    \/ VerifyProofAnyAct
    \/ VerifyProofWithPoolingAnyAct

SpecHidden == Init /\ [][NextHidden]_vars

\* the hidden indices are the message slots that are not disclosed
HiddenIsComplement(res) ==
    DOMAIN res.proof.MHat = (0 .. (res.pk.MessageCount - 1)) \ DOMAIN res.disclosedMessages

\* C27: VerifyProof and VerifyProofWithPooling return an error, and neither
\* accept nor crash, for every proof whose set of m-hat indices is not the
\* complement of the disclosed indices within the key's message slots
C27_WrongHiddenSetRejected ==
    (pverRes.kind = "hidden" /\ ~HiddenIsComplement(pverRes))
    => pverRes.err \notin {"nil", "panic"}

(***************************************************************************)
(* Decoders on truncated input                                             *)
(***************************************************************************)

\* PrivateKey.MarshalBinary
PrivateKeyMarshalBinary(sk) == [err |-> "nil", data |-> LengthPrefixed(BigIntBytes(sk.X))]

\* PrivateKey.UnmarshalBinary into sk
PrivateKeyUnmarshalBinary(sk, data) ==
    LET xBytes == ReadLengthPrefixed(data, 0)
    IN  IF xBytes.err # "nil" THEN [err |-> xBytes.err, sk |-> sk]
        ELSE [err |-> "nil", sk |-> [X |-> SetBytes(xBytes.bytes)]]

\* a scalar whose bytes are more than one, as those of a scalar of the
\* curve's order are
WideScalar == 258

\* the values whose encodings are cut short
PrefixKeys == {[X |-> x] : x \in Scalars \cup {WideScalar}}

PrefixSignatures == [A : 0 .. 1, E : {1}, S : Scalars \cup {WideScalar}]

PrefixProofs == {[NoProof EXCEPT !.D = d, !.C = 1, !.SHat = sHat, !.MHat = mHat] : d \in 0 .. 1, sHat \in {1, WideScalar}, mHat \in {<<>>, (0 :> 1), (0 :> WideScalar)}}

\* the strict prefixes of data
StrictPrefixes(data) == {SubSeq(data, 1, k) : k \in 0 .. (Len(data) - 1)}

PrivateKeyUnmarshalPrefixAct ==
    /\ fnRes = None
    /\ \E sk \in PrefixKeys : \E data \in StrictPrefixes(PrivateKeyMarshalBinary(sk).data) :
          LET r == PrivateKeyUnmarshalBinary([X |-> 0], data)
          IN  fnRes' = [kind |-> "prefix", by |-> "PrivateKey.UnmarshalBinary",
                        of |-> sk, length |-> Len(data), err |-> r.err, out |-> r.sk]
    /\ UNCHANGED <<batch, calls, kr, kp, sigRes, verRes, sigCache, proofRes, pverRes,
                   proofCache, held, bigIntPool>>

SignatureUnmarshalPrefixAct ==
    /\ fnRes = None
    /\ \E sig \in PrefixSignatures : \E data \in StrictPrefixes(MarshalBinary(sig).data) :
          LET r == UnmarshalBinary(data)
          IN  fnRes' = [kind |-> "prefix", by |-> "Signature.UnmarshalBinary",
                        of |-> sig, length |-> Len(data), err |-> r.err, out |-> r.sig]
    /\ UNCHANGED <<batch, calls, kr, kp, sigRes, verRes, sigCache, proofRes, pverRes,
                   proofCache, held, bigIntPool>>

ProofUnmarshalPrefixAct ==
    /\ fnRes = None
    /\ \E proof \in PrefixProofs : \E indices \in KeyOrders(DOMAIN proof.MHat) :
       \E data \in StrictPrefixes(ProofMarshalBinary(proof, indices).data) :
          LET r == ProofUnmarshalBinary(NoProof, data)
          IN  fnRes' = [kind |-> "prefix", by |-> "ProofOfKnowledge.UnmarshalBinary",
                        of |-> proof, length |-> Len(data), err |-> r.err, out |-> r.p]
    /\ UNCHANGED <<batch, calls, kr, kp, sigRes, verRes, sigCache, proofRes, pverRes,
                   proofCache, held, bigIntPool>>

DeserializeSignaturePrefixAct ==
    /\ fnRes = None
    /\ \E sig \in PrefixSignatures : \E data \in StrictPrefixes(SerializeSignature(sig)) :
          LET r == DeserializeSignature(data)
          IN  fnRes' = [kind |-> "prefix", by |-> "DeserializeSignature",
                        of |-> sig, length |-> Len(data), err |-> r.err, out |-> r.sig]
    /\ UNCHANGED <<batch, calls, kr, kp, sigRes, verRes, sigCache, proofRes, pverRes,
                   proofCache, held, bigIntPool>>

DeserializeProofPrefixAct ==
    /\ fnRes = None
    /\ \E proof \in PrefixProofs : \E indices \in KeyOrders(DOMAIN proof.MHat) :
       \E data \in StrictPrefixes(SerializeProof(proof, indices)) :
          LET r == DeserializeProof(data)
          IN  fnRes' = [kind |-> "prefix", by |-> "DeserializeProof",
                        of |-> proof, length |-> Len(data), err |-> r.err, out |-> r.proof]
    /\ UNCHANGED <<batch, calls, kr, kp, sigRes, verRes, sigCache, proofRes, pverRes,
                   proofCache, held, bigIntPool>>

NextPrefix ==
    \/ PrivateKeyUnmarshalPrefixAct
    \/ SignatureUnmarshalPrefixAct
    \/ ProofUnmarshalPrefixAct
    \/ DeserializeSignaturePrefixAct
    \/ DeserializeProofPrefixAct

SpecPrefix == Init /\ [][NextPrefix]_vars

\* C28: a decoder (UnmarshalBinary of PrivateKey, Signature and
\* ProofOfKnowledge, DeserializeSignature, DeserializeProof) returns an error
\* for every input that is a strict prefix of an encoding; it never returns a
\* value built from fields that were read in part and filled with zeros
C28_TruncatedInputRejected ==
    fnRes.kind = "prefix" => fnRes.err # "nil"

(***************************************************************************)
(* Deterministic signing                                                   *)
(***************************************************************************)

\* HMAC-SHA256 with the key seed, as a number: a fixed digest of key and text
HMAC(seed, text) == SHA256(<<seed>> \o text)

\* deterministicScalar: the HMAC h is keyed with the seed; K, the only value
\* the label enters, is not used after it is computed
deterministicScalar(seed, label) ==
    LET V0 == <<1>>
        K == HMAC(seed, V0 \o <<0>> \o <<seed>> \o label)
        V == HMAC(seed, V0)
        result == HMAC(seed, <<V>> \o <<1>>)
        scalar == Mod(result)
    IN  IF scalar = 0 THEN 1 ELSE scalar

DeterministicSign(sk, pk, messages, header, extraEntropy) ==
    IF Len(messages) # pk.MessageCount
    THEN [err |-> "ErrInvalidMessageCount", sig |-> NoSig]
    ELSE LET domain == CalculateDomain(pk, header)
             data == BigIntBytes(sk.X) \o BigIntBytes(domain)
                     \o Concat([k \in 1 .. Len(messages) |-> BigIntBytes(messages[k])])
                     \o header \o extraEntropy
             hash == SHA256(data)
             e == deterministicScalar(hash, <<69>>)
             s == deterministicScalar(hash, <<83>>)
             msum == SumSet(0 .. (Len(messages) - 1),
                            [i \in 0 .. (Len(messages) - 1) |->
                                G1ScalarMul(HAt(pk, i + 2), MsgAt(messages, i))])
             B == G1Add(G1Add(HAt(pk, 0), G1ScalarMul(HAt(pk, 1), domain)), Mod(msum))
             invDenom == ConstantTimeModInverse(sk.X + e)
             g1InvDenom == G1ScalarMul(pk.G1, invDenom)
             BnegS == G1ScalarMul(B, Mod(0 - s))
         IN  [err |-> "nil", sig |-> [A |-> G1Add(g1InvDenom, BnegS), E |-> e, S |-> s]]

\* the extra entropy a caller passes
ExtraEntropies == UNION {[1 .. n -> Scalars] : n \in 0 .. 2}

DeterministicSignAct ==
    /\ kp # None
    /\ sigRes = None
    /\ \E messages \in MessageVectors(kp.pk.MessageCount), header \in Headers,
          extraEntropy \in ExtraEntropies :
          LET r == DeterministicSign(kp.sk, kp.pk, messages, header, extraEntropy)
          IN  sigRes' = [kind |-> "deterministic", messages |-> messages,
                         header |-> header, extraEntropy |-> extraEntropy,
                         err |-> r.err, sig |-> r.sig]
    /\ UNCHANGED <<batch, calls, kr, fnRes, held, bigIntPool, kp, verRes, sigCache,
                   proofRes, pverRes, proofCache>>

NextDeterministic ==
    \/ GenerateKeyPairAct
    \/ DeterministicSignAct

SpecDeterministic == Init /\ [][NextDeterministic]_vars

\* C29: the signature that DeterministicSign returns for a key pair, a
\* message vector of the key's length, a header and extra entropy has
\* A = (x+e)^-1 * (P1 + s*Q1 + dom*Q2 + sum of m_i*H_i), and Verify accepts it
\* with the same public key, messages and header
C29_DeterministicSignatureVerifies ==
    sigRes.kind = "deterministic"
    => /\ sigRes.err = "nil"
       /\ Mod(kp.sk.X + sigRes.sig.E) # 0
          => sigRes.sig.A = G1ScalarMul(ComputeB(kp.pk, sigRes.sig.S, CalculateDomain(kp.pk, sigRes.header), sigRes.messages), ModInverse(kp.sk.X + sigRes.sig.E))
       /\ Verify(kp.pk, sigRes.sig, sigRes.messages, sigRes.header) = "nil"

(***************************************************************************)
(* Key rotation.  kr is a KeyRotation; a key pair is an object, here the   *)
(* pair made by GenerateKeyPair with the number id of its allocation.      *)
(***************************************************************************)
MaxRotations == 3

\* the KeyPair object that GenerateKeyPair allocates as the id-th one
NewKeyPair(id, messageCount, x) == [id |-> id] @@ GenerateKeyPair(messageCount, x)

NewKeyRotation(initialKey) ==
    [kind |-> "rotation", currentKey |-> initialKey, history |-> <<initialKey>>,
     metadata |-> <<>>]

\* KeyRotation.RotateKey, with the key pair that GenerateKeyPair returned
RotateKey(rotation, newKeyPair, messageCount) ==
    LET history == Append(rotation.history, rotation.currentKey)
    IN  [rotation EXCEPT !.history = history, !.currentKey = newKeyPair,
                         !.metadata = (Len(history) :> messageCount) @@ @]

GetCurrentKey(rotation) == rotation.currentKey

GetKeyHistory(rotation) == rotation.history

GetKeyAtIndex(rotation, index) ==
    IF index < 0 \/ index >= Len(rotation.history)
    THEN [err |-> "invalid key history index", key |-> None]
    ELSE [err |-> "nil", key |-> rotation.history[index + 1]]

\* made is the number of key pairs generated so far, before the last call all
\* that the last RotateKey found, err what it returned
NewKeyRotationAct ==
    /\ kr = None
    /\ \E x \in Scalars :
          kr' = [rotation |-> NewKeyRotation(NewKeyPair(0, MaxL, x)), kind |-> "rotation",
                 made |-> 1, before |-> None, err |-> "none"]
    /\ UNCHANGED <<batch, calls, fnRes, kp, sigRes, verRes, sigCache, proofRes, pverRes,
                   proofCache, held, bigIntPool>>

RotateKeyAct ==
    /\ kr.kind = "rotation"
    /\ kr.made <= MaxRotations
    /\ \/ kr' = [kr EXCEPT !.before = kr.rotation,
                           !.err = "failed to generate new key"]
       \/ \E x \in Scalars :
             kr' = [kr EXCEPT !.rotation = RotateKey(kr.rotation,
                                                     NewKeyPair(kr.made, MaxL, x), MaxL),
                              !.made = @ + 1, !.before = kr.rotation, !.err = "nil"]
    /\ UNCHANGED <<batch, calls, fnRes, kp, sigRes, verRes, sigCache, proofRes, pverRes,
                   proofCache, held, bigIntPool>>

NextRotation ==
    \/ NewKeyRotationAct
    \/ RotateKeyAct

SpecRotation == Init /\ [][NextRotation]_vars

\* C30: after NewKeyRotation and any number of RotateKey calls,
\* GetCurrentKey returns the key pair generated last, the history holds no
\* key pair twice and lists the key pairs in the order in which they became
\* current, index 0 being the oldest, and a RotateKey that failed left the
\* current key and the history as they were
C30_HistoryInOrderWithoutRepeats ==
    kr.kind = "rotation"
    => /\ GetCurrentKey(kr.rotation).id = kr.made - 1
       /\ \A i \in 0 .. (Len(GetKeyHistory(kr.rotation)) - 1) :
          \A j \in 0 .. (Len(GetKeyHistory(kr.rotation)) - 1) :
             i < j => GetKeyAtIndex(kr.rotation, i).key.id < GetKeyAtIndex(kr.rotation, j).key.id
       /\ kr.err \notin {"nil", "none"}
          => /\ GetCurrentKey(kr.rotation) = GetCurrentKey(kr.before)
             /\ GetKeyHistory(kr.rotation) = GetKeyHistory(kr.before)

====
